---------------------------- MODULE Spec2Model ----------------------------
(***************************************************************************)
(* A model of the reliability engine of a QUIC packet-number space         *)
(* (qrecovery/src/space.rs): outbound assembly (try_send), reception       *)
(* bookkeeping (record), ACK generation (gen_ack_frame, need_send_ack),    *)
(* ACK processing and loss detection (recv_ack_frame), and the 0-RTT to    *)
(* 1-RTT upgrade.                                                          *)
(*                                                                         *)
(* Conventions.  An Option<T> is a set with at most one element: {} is     *)
(* None and {v} is Some(v).  An Instant is a number of milliseconds since  *)
(* the space was built; a Duration is a number of milliseconds.            *)
(***************************************************************************)
EXTENDS Integers, Sequences, FiniteSets, TLC

(***************************************************************************)
(* Bounds of the model.                                                    *)
(***************************************************************************)
\* packet numbers issued by try_send stay below MaxPn
MaxPn == 2
\* packet numbers handed to record() are in 0..MaxRcvPn
MaxRcvPn == 0
\* packet numbers handed to record() in the ACK-generation specification
MaxAckPn == 7
\* packet numbers issued by try_send in the loss-detection specification
MaxLossPn == 5
\* packet numbers issued by try_send in the loss scenario: packets 0..10
MaxScenarioPn == 11
\* pending_frames holds at most MaxFrames frames
MaxFrames == 2
\* each data source (crypto, stream) creates at most MaxChunks data ranges
MaxChunks == 1
\* the clock advances at most MaxTicks times
MaxTicks == 1

(***************************************************************************)
(* Program constants.                                                      *)
(***************************************************************************)
PACKET_THRESHOLD == 3
max_ack_delay == 25
disorder_tolerance == 0

\* SpaceId: "Initial", "Handshake", "ZeroRtt", "OneRtt"

None == {}
Some(v) == {v}
Unwrap(o) == CHOOSE v \in o : TRUE

Min(a, b) == IF a <= b THEN a ELSE b
Max(a, b) == IF a >= b THEN a ELSE b
SatSub(a, b) == IF a >= b THEN a - b ELSE 0

(***************************************************************************)
(* Varint::encoding_size: 1, 2, 4 or 8 bytes by value range.               *)
(***************************************************************************)
VarintLen(v) ==
    IF v < 64 THEN 1
    ELSE IF v < 16384 THEN 2
    ELSE IF v < 1073741824 THEN 4
    ELSE 8

(***************************************************************************)
(* The received-packet State and its methods.                              *)
(***************************************************************************)
NotReceived == [st |-> "NotReceived"]
Unreached == [st |-> "Unreached"]
Ignored(t) == [st |-> "Ignored", t |-> t]
Important(t) == [st |-> "Important", t |-> t]
Synced(t) == [st |-> "Synced", t |-> t]

new_rcvd(t, is_ack_eliciting) ==
    IF is_ack_eliciting THEN Important(t) ELSE Ignored(t)

has_rcvd(s) == s.st \in {"Ignored", "Important", "Synced"}

has_not_rcvd(s) == s.st \in {"NotReceived", "Unreached"}

\* State::delay: the time since reception, None for a slot not received
delay(s, now_) == IF has_rcvd(s) THEN Some(now_ - s.t) ELSE None

be_synced(s) ==
    CASE s.st \in {"Ignored", "Important"} -> Synced(s.t)
      [] s.st = "NotReceived" -> Unreached
      [] OTHER -> s

(***************************************************************************)
(* IndexDeque<T, LIMIT>: a deque q of slots plus a base offset; slot       *)
(* q[i] has index offset + i - 1.                                          *)
(***************************************************************************)
DqNew == [offset |-> 0, q |-> <<>>]
DqLen(d) == Len(d.q)
\* IndexDeque::largest: the index the next pushed element gets
DqLargest(d) == d.offset + Len(d.q)
DqContains(d, idx) == idx >= d.offset /\ idx < DqLargest(d)
\* IndexDeque::get
DqGet(d, idx) == IF DqContains(d, idx) THEN Some(d.q[idx - d.offset + 1]) ELSE None
DqSet(d, idx, v) == [d EXCEPT !.q[idx - d.offset + 1] = v]
\* IndexDeque::push: append, the new element's index is the old largest()
DqPush(d, v) == [d EXCEPT !.q = Append(@, v)]
\* an insert that appends past the end without filling the slots skipped
DqInsert_no_fill(d, idx, v, default) ==
    IF idx < DqLargest(d)
    THEN DqSet(d, idx, v)
    ELSE [d EXCEPT !.q = Append(@, v)]
\* IndexDeque::insert at idx >= offset: slots skipped get the default value
DqInsert(d, idx, v, default) ==
    IF idx < DqLargest(d)
    THEN DqSet(d, idx, v)
    ELSE [d EXCEPT !.q = @ \o [i \in 1..(idx - DqLargest(d)) |-> default] \o <<v>>]
\* number of slots drain_to(end) removes: those with index below end
DqDrainCount(d, end) == Min(SatSub(end, d.offset), Len(d.q))
\* IndexDeque::drain_to(end): remove the slots with index < end and advance
\* the base to end (never backwards)
DqDrainTo(d, end) ==
    [offset |-> Max(d.offset, end),
     q |-> SubSeq(d.q, DqDrainCount(d, end) + 1, Len(d.q))]
\* the slots drain_to(end) yields, in index order
DqDrained(d, end) == SubSeq(d.q, 1, DqDrainCount(d, end))
\* IndexDeque::drain(..n): pop the first n slots, the base advances by n
DqDrainFront(d, n) ==
    [offset |-> d.offset + n, q |-> SubSeq(d.q, n + 1, Len(d.q))]
\* a deque that drops the first n slots and keeps its base
DqDrainFrontKeepBase(d, n) ==
    [offset |-> d.offset, q |-> SubSeq(d.q, n + 1, Len(d.q))]

Reverse(s) == [i \in 1..Len(s) |-> s[Len(s) + 1 - i]]

(***************************************************************************)
(* Frames.  A pure (control) frame is a record with a type; the stream     *)
(* control frame of the stream source is the pure frame StreamCtl.         *)
(***************************************************************************)
DataBlocked(limit) == [type |-> "DataBlocked", limit |-> limit]
StreamCtl == [type |-> "StreamCtl"]
PathResponse == [type |-> "PathResponse"]
MaxStreamData(stream_id, max_stream_data) ==
    [type |-> "MaxStreamData", stream_id |-> stream_id,
     max_stream_data |-> max_stream_data]

\* the frames write_frame is called with
PureFrames == {DataBlocked(1073741824)}

\* BeFrame::belongs_to
belongs_to(f, sid) ==
    CASE f.type = "DataBlocked" -> sid = "ZeroRtt" \/ sid = "OneRtt"
      [] f.type = "MaxStreamData" -> sid = "ZeroRtt" \/ sid = "OneRtt"
      [] f.type = "PathResponse" -> sid = "OneRtt"
      [] OTHER -> sid = "ZeroRtt" \/ sid = "OneRtt"

\* BeFrame::max_encoding_size
max_encoding_size(f) ==
    CASE f.type = "DataBlocked" -> 1 + 8
      [] f.type = "MaxStreamData" -> 1 + 8 + 8
      [] f.type = "PathResponse" -> 1 + 8
      [] OTHER -> 1 + 8 + 8

\* BeFrame::encoding_size
encoding_size(f) ==
    CASE f.type = "DataBlocked" -> 1 + VarintLen(f.limit)
      [] f.type = "MaxStreamData" ->
            1 + VarintLen(f.stream_id) + VarintLen(f.max_stream_data)
      [] f.type = "PathResponse" -> 1 + 8
      [] OTHER -> 1 + 1 + 1

\* a test that lets every frame into the buffer
Fits_always(remaning, maxsz, sz) == TRUE

\* the test `remaning >= max_encoding_size() || remaning >= encoding_size()`
Fits(remaning, maxsz, sz) == remaning >= maxsz \/ remaning >= sz

(***************************************************************************)
(* ACK frames: [largest, delay, first_range, ranges, ecn], ranges a        *)
(* sequence of <<gap, acked>> pairs.                                       *)
(***************************************************************************)
RECURSIVE SumRangeSizes(_)
SumRangeSizes(ranges) ==
    IF ranges = <<>> THEN 0
    ELSE VarintLen(ranges[1][1]) + VarintLen(ranges[1][2]) + SumRangeSizes(Tail(ranges))

AckEncodingSize(ack) ==
    1 + VarintLen(ack.largest) + VarintLen(ack.delay) + VarintLen(Len(ack.ranges))
      + VarintLen(ack.first_range) + SumRangeSizes(ack.ranges)

AckMaxEncodingSize(ack) == 1 + 8 + 8 + 8 + 8 + 16 * Len(ack.ranges)

\* The packet-number ranges an ACK frame encodes, as <<smallest, largest>>
\* pairs from the top: [largest - first_range, largest], then per pair a gap
\* of gap+1 numbers and a run of acked+1 numbers.  A range that would reach
\* below 0 ends the decoding.
RECURSIVE AckRangesFrom(_, _)
AckRangesFrom(smallest, ranges) ==
    IF ranges = <<>> THEN <<>>
    ELSE LET hi == smallest - ranges[1][1] - 2
             lo == hi - ranges[1][2]
         IN IF lo < 0 THEN <<>>
            ELSE <<(<<lo, hi>>)>> \o AckRangesFrom(lo, Tail(ranges))

AckRanges(ack) ==
    IF ack.first_range > ack.largest THEN <<>>
    ELSE <<(<<ack.largest - ack.first_range, ack.largest>>)>>
         \o AckRangesFrom(ack.largest - ack.first_range, ack.ranges)

\* the packet numbers an ACK frame acknowledges
AckCovered(ack) ==
    UNION {r[1]..r[2] : r \in {AckRanges(ack)[i] : i \in 1..Len(AckRanges(ack))}}

\* the packet numbers of an ACK frame in the order its iterator yields them:
\* range after range from the top, each range in increasing order
RECURSIVE RangeSeq(_, _)
RangeSeq(lo, hi) == IF lo > hi THEN <<>> ELSE <<lo>> \o RangeSeq(lo + 1, hi)

RECURSIVE FlattenRanges(_)
FlattenRanges(rs) ==
    IF rs = <<>> THEN <<>>
    ELSE RangeSeq(rs[1][1], rs[1][2]) \o FlattenRanges(Tail(rs))

AckPktIds(ack) == FlattenRanges(AckRanges(ack))

(***************************************************************************)
(* The state of one space (the fields of Space), its two data sources, the *)
(* clock, and the record of the last call.                                 *)
(***************************************************************************)
VARIABLES
    space_id,
    frames,                                  \* pending control frames
    inflight_packets,                        \* IndexDeque<Option<Packet>>
    time_of_last_sent_ack_eliciting_packet,  \* Option<Instant>
    largest_acked_pktid,                     \* Option<u64>
    loss_time,                               \* Option<Instant>
    rcvd_packets,                            \* IndexDeque<State>
    largest_rcvd_ack_eliciting_pktid,
    last_synced_ack_largest,
    new_lost_event,
    rcvd_unreached_packet,
    time_to_sync,                            \* Option<Instant>
    tls_trans,                               \* the crypto data source
    stm_trans,                               \* the stream data source
    now,                                     \* Instant::now()
    pc,                                      \* "idle", "frames_loop" or "panicked"
    out,                                     \* the last call and what it returned
    sender,                                  \* the Sender behind the Writer's ArcSender
    writer_dropped,                          \* the Writer handle has been dropped
    input_frame,                             \* Option: the frame handed to the codec
    wire,                                    \* Option: the bytes put for it
    parsed                                   \* Option: what the parser made of them

ackvars == <<rcvd_packets, largest_rcvd_ack_eliciting_pktid, last_synced_ack_largest,
             new_lost_event, rcvd_unreached_packet, time_to_sync>>
sendvars == <<frames, inflight_packets, time_of_last_sent_ack_eliciting_packet,
              largest_acked_pktid, loss_time>>
muxvars == <<tls_trans, stm_trans>>
vars == <<space_id, frames, inflight_packets, time_of_last_sent_ack_eliciting_packet,
          largest_acked_pktid, loss_time, rcvd_packets, largest_rcvd_ack_eliciting_pktid,
          last_synced_ack_largest, new_lost_event, rcvd_unreached_packet, time_to_sync,
          tls_trans, stm_trans, now, pc, out,
          sender, writer_dropped, input_frame, wire, parsed>>
streamvars == <<sender, writer_dropped>>
codecvars == <<input_frame, wire, parsed>>
spacevars == <<space_id, ackvars, sendvars, muxvars, now, pc>>

(***************************************************************************)
(* The data sources (TransmitCrypto, TransmitStream).  A source holds the  *)
(* data ranges it has to (re)send; a range is one byte of data at offset   *)
(* c, named by c.  try_send_data writes the frame of the lowest unsent     *)
(* range when it fits; may_loss_data offers a range again.                 *)
(***************************************************************************)
MuxNew == [unsent |-> {}, created |-> 0, ctl |-> FALSE]

\* type, offset, length, one byte of data
DataFrameSize(c) == 1 + VarintLen(c) + VarintLen(1) + 1

MinOf(S) == CHOOSE x \in S : \A y \in S : x <= y

\* try_send_data: Some(range) when a frame was written
try_send_data(mux, remaining) ==
    IF mux.unsent # {} /\ remaining >= DataFrameSize(MinOf(mux.unsent))
    THEN Some(MinOf(mux.unsent)) ELSE None

\* try_send_frame of the stream source: a waiting stream control frame
try_send_frame(mux, remaining) ==
    IF mux.ctl /\ remaining >= encoding_size(StreamCtl) THEN Some(StreamCtl) ELSE None

confirm_data(mux, c) == [mux EXCEPT !.unsent = @ \ {c}]
may_loss_data(mux, c) == [mux EXCEPT !.unsent = @ \cup {c}]

\* `while let Some(..) = trans.try_send_data(buf)`: the ranges written, in order
RECURSIVE SendAllData(_, _, _)
SendAllData(mux, remaining, sent) ==
    IF try_send_data(mux, remaining) = None
    THEN [mux |-> mux, remaining |-> remaining, sent |-> sent]
    ELSE LET c == Unwrap(try_send_data(mux, remaining))
         IN SendAllData([mux EXCEPT !.unsent = @ \ {c}],
                        remaining - DataFrameSize(c), Append(sent, c))

(***************************************************************************)
(* Space::build                                                            *)
(***************************************************************************)
Build(sid) ==
    /\ space_id = sid
    /\ frames = <<>>
    /\ inflight_packets = DqNew
    /\ time_of_last_sent_ack_eliciting_packet = None
    /\ largest_acked_pktid = None
    /\ loss_time = None
    /\ rcvd_packets = DqNew
    /\ largest_rcvd_ack_eliciting_pktid = 0
    /\ last_synced_ack_largest = 0
    /\ new_lost_event = FALSE
    /\ rcvd_unreached_packet = FALSE
    /\ time_to_sync = None
    /\ tls_trans = MuxNew
    /\ stm_trans = MuxNew
    /\ now = 0
    /\ pc = "idle"
    /\ out = [op |-> "build"]

\* a stream sender as created: Sender::Ready with an empty buffer.  offset is
\* the accumulated offset (bytes written), sent the bytes handed to the
\* packet assembler, acked the bytes acknowledged.
NewSender ==
    [state |-> "Ready", offset |-> 0, sent |-> 0, acked |-> 0,
     final |-> None, cancel |-> FALSE]

\* a stream whose Writer nobody uses
StreamIdle == sender = NewSender /\ writer_dropped = FALSE

\* the codec with nothing handed to it
CodecIdle == input_frame = None /\ wire = None /\ parsed = None

\* SpaceIO::new_initial, new_handshake, new
Init == \E sid \in {"Initial", "Handshake", "ZeroRtt"} : Build(sid) /\ StreamIdle /\ CodecIdle

(***************************************************************************)
(* Space::write_frame                                                      *)
(***************************************************************************)
\* Space::write_frame without its assertion
WriteFrame_unchecked(f) ==
    /\ pc = "idle"
    /\ UNCHANGED <<streamvars, codecvars>>
    /\ Len(frames) < MaxFrames
    /\ frames' = Append(frames, f)
    /\ out' = [op |-> "write_frame"]
    /\ UNCHANGED <<space_id, inflight_packets, time_of_last_sent_ack_eliciting_packet,
                   largest_acked_pktid, loss_time, now, pc>>
    /\ UNCHANGED ackvars
    /\ UNCHANGED muxvars

WriteFrame(f) ==
    /\ pc = "idle"
    /\ UNCHANGED <<streamvars, codecvars>>
    /\ Len(frames) < MaxFrames
    /\ belongs_to(f, space_id)
    /\ frames' = Append(frames, f)
    /\ out' = [op |-> "write_frame"]
    /\ UNCHANGED <<space_id, inflight_packets, time_of_last_sent_ack_eliciting_packet,
                   largest_acked_pktid, loss_time, now, pc>>
    /\ UNCHANGED ackvars
    /\ UNCHANGED muxvars

(***************************************************************************)
(* Space::record                                                           *)
(***************************************************************************)
\* iter_with_idx().rev(): <<index, state>> pairs from the largest index down
IterWithIdxRev(d) ==
    [i \in 1..Len(d.q) |-> <<DqLargest(d) - i, d.q[Len(d.q) + 1 - i]>>]

\* the closure of skip_while: |(pn, _)| pn >= &pn.  Its parameter pn shadows
\* the packet number, so the index is compared with itself.
skip_while_pred(pn, pkt_id) == pn >= pn

\* the number of leading elements of a sequence of pairs that skip_while drops
SkipWhileCount(s, pkt_id) ==
    CHOOSE n \in 0..Len(s) :
        /\ \A k \in 1..n : skip_while_pred(s[k][1], pkt_id)
        /\ n = Len(s) \/ ~skip_while_pred(s[n + 1][1], pkt_id)

\* the number of leading elements take_while(|(pn, _)| pn > last_synced) keeps
TakeWhileAboveCount(s, bound) ==
    CHOOSE n \in 0..Len(s) :
        /\ \A k \in 1..n : s[k][1] > bound
        /\ n = Len(s) \/ ~(s[n + 1][1] > bound)

\* the scan of record(): is a slot NotReceived among those examined
LostScan(d, pkt_id, last_synced) ==
    LET all == IterWithIdxRev(d)
        s1 == SubSeq(all, SkipWhileCount(all, pkt_id) + 1, Len(all))
        s2 == SubSeq(s1, PACKET_THRESHOLD + 1, Len(s1))
        s3 == SubSeq(s2, 1, TakeWhileAboveCount(s2, last_synced))
    IN \E k \in 1..Len(s3) : s3[k][2] = NotReceived

Record(pkt_id, is_ack_eliciting) ==
    /\ pc = "idle"
    /\ UNCHANGED <<streamvars, codecvars>>
    /\ pkt_id >= rcvd_packets.offset
    /\ \A s \in DqGet(rcvd_packets, pkt_id) : has_not_rcvd(s)
    /\ LET rcvd == DqInsert(rcvd_packets, pkt_id, new_rcvd(now, is_ack_eliciting),
                            NotReceived)
       IN /\ rcvd_packets' = rcvd
          /\ IF is_ack_eliciting
             THEN /\ IF largest_rcvd_ack_eliciting_pktid < pkt_id
                     THEN /\ largest_rcvd_ack_eliciting_pktid' = pkt_id
                          /\ new_lost_event' =
                                (new_lost_event
                                   \/ LostScan(rcvd, pkt_id, last_synced_ack_largest))
                     ELSE UNCHANGED <<largest_rcvd_ack_eliciting_pktid, new_lost_event>>
                  /\ rcvd_unreached_packet' =
                        (rcvd_unreached_packet \/ pkt_id < last_synced_ack_largest)
                  /\ time_to_sync' =
                        (IF time_to_sync # None THEN time_to_sync
                         ELSE Some(now + max_ack_delay))
             ELSE UNCHANGED <<largest_rcvd_ack_eliciting_pktid, new_lost_event,
                              rcvd_unreached_packet, time_to_sync>>
    /\ out' = [op |-> "record", pkt_id |-> pkt_id, is_ack_eliciting |-> is_ack_eliciting]
    /\ UNCHANGED <<space_id, last_synced_ack_largest, now, pc>>
    /\ UNCHANGED sendvars
    /\ UNCHANGED muxvars

(***************************************************************************)
(* Space::gen_ack_frame                                                    *)
(***************************************************************************)
\* the number of consecutive elements of s from position i on that satisfy
\* has_rcvd (want = TRUE) or has_not_rcvd (want = FALSE)
RunCount(s, i, want) ==
    CHOOSE n \in 0..(Len(s) + 1 - i) :
        /\ \A k \in i..(i + n - 1) : has_rcvd(s[k]) = want
        /\ i + n > Len(s) \/ has_rcvd(s[i + n]) # want

\* by_ref().take_while(p).count() leaves the iterator behind the first
\* element that fails p: that element is consumed too
AfterTakeWhile(s, i, n) == Min(i + n + 1, Len(s) + 1)

\* the loop of gen_ack_frame, the iterator at position i of the reversed slots
RECURSIVE AckRangesLoop(_, _, _)
AckRangesLoop(s, i, ranges) ==
    IF i > Len(s) THEN ranges
    ELSE LET j == i + 1
             gap == RunCount(s, j, FALSE)
             j2 == AfterTakeWhile(s, j, gap)
         IN IF j2 > Len(s) THEN ranges
            ELSE LET j3 == j2 + 1
                     acked == RunCount(s, j3, TRUE)
                     j4 == AfterTakeWhile(s, j3, acked)
                 IN AckRangesLoop(s, j4, Append(ranges, <<gap, acked>>))

\* what gen_ack_frame unwraps: a largest slot, and it has been received
GenAckDefined(d) == DqLen(d) > 0 /\ has_rcvd(d.q[Len(d.q)])

gen_ack_frame(d, now_) ==
    LET largest == d.offset + Len(d.q) - 1
        s == Reverse(d.q)
        n == RunCount(s, 1, TRUE)
    IN [largest |-> largest,
        delay |-> Unwrap(delay(Unwrap(DqGet(d, largest)), now_)) * 1000,
        first_range |-> n - 1,
        ranges |-> AckRangesLoop(s, AfterTakeWhile(s, 1, n), <<>>),
        ecn |-> FALSE]

(***************************************************************************)
(* Space::need_send_ack_frame                                              *)
(***************************************************************************)
\* the deadline test as written: Some(t) => t > Instant::now()
SyncDue(tts, now_) == \E t \in tts : t > now_

\* need_send_ack_frame without the test of rcvd_unreached_packet
need_send_ack_frame_lost_only ==
    IF space_id = "ZeroRtt" THEN FALSE
    ELSE IF new_lost_event THEN TRUE
    ELSE SyncDue(time_to_sync, now)

\* need_send_ack_frame without the test of the 0-RTT space
need_send_ack_frame_any_space ==
    IF new_lost_event \/ rcvd_unreached_packet THEN TRUE
    ELSE SyncDue(time_to_sync, now)

need_send_ack_frame ==
    IF space_id = "ZeroRtt" THEN FALSE
    ELSE IF new_lost_event \/ rcvd_unreached_packet THEN TRUE
    ELSE SyncDue(time_to_sync, now)

(***************************************************************************)
(* Space::try_send                                                         *)
(***************************************************************************)
\* the Records of a payload
AckRecord(largest) == [k |-> "Ack", largest |-> largest]
PureRecord(f) == [k |-> "Pure", frame |-> f]
DataRecord(mux, c) == [k |-> "Data", mux |-> mux, range |-> c]

\* `rcvd_packets.iter_mut().for_each(|s| s.be_synced())`
MarkSynced(d) == [d EXCEPT !.q = [i \in 1..Len(d.q) |-> be_synced(d.q[i])]]

\* a loop over pending_frames that passes over a frame that does not fit
\* and goes on with the frames behind it
RECURSIVE FramesLoop_skips(_, _, _)
FramesLoop_skips(q, remaning, taken) ==
    IF q = <<>>
    THEN [exits |-> FALSE, q |-> q, remaning |-> remaning, taken |-> taken]
    ELSE IF Fits(remaning, max_encoding_size(Head(q)), encoding_size(Head(q)))
         THEN FramesLoop_skips(Tail(q), remaning - encoding_size(Head(q)),
                               Append(taken, Head(q)))
         ELSE LET rest == FramesLoop_skips(Tail(q), remaning, taken)
              IN [exits |-> TRUE, q |-> <<Head(q)>> \o rest.q,
                  remaning |-> rest.remaning, taken |-> rest.taken]

\* The loop over pending_frames, `remaning` bytes left in the buffer: the
\* front frame is written and popped while it fits, and the loop is left
\* (exits) when the front frame does not fit.  On an empty queue the loop
\* body does nothing and the loop goes round again.
RECURSIVE FramesLoop(_, _, _)
FramesLoop(q, remaning, taken) ==
    IF q = <<>>
    THEN [exits |-> FALSE, q |-> q, remaning |-> remaning, taken |-> taken]
    ELSE IF Fits(remaning, max_encoding_size(Head(q)), encoding_size(Head(q)))
         THEN FramesLoop(Tail(q), remaning - encoding_size(Head(q)),
                         Append(taken, Head(q)))
         ELSE [exits |-> TRUE, q |-> q, remaning |-> remaning, taken |-> taken]

\* a Packet record
Packet(send_time, payload, sent_bytes, is_ack_eliciting) ==
    [send_time |-> send_time, payload |-> payload, sent_bytes |-> sent_bytes,
     is_ack_eliciting |-> is_ack_eliciting]

\* `is_ack_eliciting` at the end of try_send: set by the pending-frames loop
\* only, given the control frames and the data ranges placed in the packet
IsAckEliciting(taken, ctl, crypto_sent, stream_sent) == taken # <<>>

\* `sent_bytes = remaning - buf.remaining_mut()`, remaning as last assigned
SentBytes(remaning, buf_remaining) == remaning - buf_remaining

\* the body of try_send with the crypto source asked in every space
TrySendRun_crypto_always(cap) ==
    LET ack == gen_ack_frame(rcvd_packets, now)
        emit == /\ need_send_ack_frame
                /\ Fits(cap, AckMaxEncodingSize(ack), AckEncodingSize(ack))
        rem1 == IF emit THEN cap - AckEncodingSize(ack) ELSE cap
        payload1 == IF emit THEN <<AckRecord(ack.largest)>> ELSE <<>>
        loop == FramesLoop(frames, rem1, <<>>)
        payload2 == payload1 \o [i \in 1..Len(loop.taken) |-> PureRecord(loop.taken[i])]
        ctl == try_send_frame(stm_trans, loop.remaning)
        rem3 == IF ctl # None THEN loop.remaning - encoding_size(StreamCtl)
                ELSE loop.remaning
        stm1 == IF ctl # None THEN [stm_trans EXCEPT !.ctl = FALSE] ELSE stm_trans
        payload3 == payload2 \o (IF ctl # None THEN <<PureRecord(StreamCtl)>> ELSE <<>>)
        cr == SendAllData(tls_trans, rem3, <<>>)
        sr == SendAllData(stm1, cr.remaining, <<>>)
    IN [emit |-> emit,
        ack |-> IF emit THEN Some(ack) ELSE None,
        exits |-> loop.exits,
        frames |-> loop.q,
        payload2 |-> payload2,
        payload |-> payload3
                     \o [i \in 1..Len(cr.sent) |-> DataRecord("crypto", cr.sent[i])]
                     \o [i \in 1..Len(sr.sent) |-> DataRecord("stream", sr.sent[i])],
        tls |-> cr.mux,
        stm |-> sr.mux,
        \* every `remaning += ignore` adds 0: the sources skip no bytes
        sent_bytes |-> SentBytes(loop.remaning, sr.remaining),
        is_ack_eliciting |-> IsAckEliciting(loop.taken, ctl, cr.sent, sr.sent)]

\* the body of try_send on a buffer of cap bytes, from the ACK step to the
\* last data frame: what it wrote and what it left in the buffer
TrySendRun(cap) ==
    LET ack == gen_ack_frame(rcvd_packets, now)
        emit == /\ need_send_ack_frame
                /\ Fits(cap, AckMaxEncodingSize(ack), AckEncodingSize(ack))
        rem1 == IF emit THEN cap - AckEncodingSize(ack) ELSE cap
        payload1 == IF emit THEN <<AckRecord(ack.largest)>> ELSE <<>>
        loop == FramesLoop(frames, rem1, <<>>)
        payload2 == payload1 \o [i \in 1..Len(loop.taken) |-> PureRecord(loop.taken[i])]
        ctl == try_send_frame(stm_trans, loop.remaning)
        rem3 == IF ctl # None THEN loop.remaning - encoding_size(StreamCtl)
                ELSE loop.remaning
        stm1 == IF ctl # None THEN [stm_trans EXCEPT !.ctl = FALSE] ELSE stm_trans
        payload3 == payload2 \o (IF ctl # None THEN <<PureRecord(StreamCtl)>> ELSE <<>>)
        cr == IF space_id # "ZeroRtt" THEN SendAllData(tls_trans, rem3, <<>>)
              ELSE [mux |-> tls_trans, remaining |-> rem3, sent |-> <<>>]
        sr == SendAllData(stm1, cr.remaining, <<>>)
    IN [emit |-> emit,
        ack |-> IF emit THEN Some(ack) ELSE None,
        exits |-> loop.exits,
        frames |-> loop.q,
        payload2 |-> payload2,
        payload |-> payload3
                     \o [i \in 1..Len(cr.sent) |-> DataRecord("crypto", cr.sent[i])]
                     \o [i \in 1..Len(sr.sent) |-> DataRecord("stream", sr.sent[i])],
        tls |-> cr.mux,
        stm |-> sr.mux,
        \* every `remaning += ignore` adds 0: the sources skip no bytes
        sent_bytes |-> SentBytes(loop.remaning, sr.remaining),
        is_ack_eliciting |-> IsAckEliciting(loop.taken, ctl, cr.sent, sr.sent)]

TrySend(cap) ==
    /\ pc = "idle"
    /\ UNCHANGED <<streamvars, codecvars>>
    /\ UNCHANGED <<space_id, largest_acked_pktid, loss_time,
                   largest_rcvd_ack_eliciting_pktid, now>>
    /\ IF need_send_ack_frame /\ (space_id = "ZeroRtt" \/ ~GenAckDefined(rcvd_packets))
       THEN \* gen_ack_frame fails its assertion on a 0-RTT space, or unwraps None
            /\ pc' = "panicked"
            /\ out' = [op |-> "try_send", returned |-> FALSE, ret |-> None,
                       ack |-> None, written |-> <<>>, stored |-> FALSE]
            /\ UNCHANGED <<frames, inflight_packets,
                           time_of_last_sent_ack_eliciting_packet, rcvd_packets,
                           last_synced_ack_largest, new_lost_event,
                           rcvd_unreached_packet, time_to_sync, tls_trans, stm_trans>>
       ELSE \E r \in {TrySendRun(cap)} :
          /\ IF r.emit
             THEN /\ time_to_sync' = None
                  /\ new_lost_event' = FALSE
                  /\ rcvd_unreached_packet' = FALSE
                  /\ last_synced_ack_largest' = Unwrap(r.ack).largest
                  /\ rcvd_packets' = MarkSynced(rcvd_packets)
             ELSE UNCHANGED <<time_to_sync, new_lost_event, rcvd_unreached_packet,
                              last_synced_ack_largest, rcvd_packets>>
          /\ frames' = r.frames
          /\ IF ~r.exits
             THEN \* the pending-frames loop found the queue empty: it spins
                  /\ pc' = "frames_loop"
                  /\ out' = [op |-> "try_send", returned |-> FALSE,
                             ret |-> None, ack |-> r.ack,
                             written |-> r.payload2, stored |-> FALSE]
                  /\ UNCHANGED <<inflight_packets,
                                 time_of_last_sent_ack_eliciting_packet, tls_trans,
                                 stm_trans>>
             ELSE /\ pc' = pc
                  /\ tls_trans' = r.tls
                  /\ stm_trans' = r.stm
                  /\ IF r.sent_bytes = 0
                     THEN /\ out' = [op |-> "try_send", returned |-> TRUE,
                                     ret |-> None, ack |-> r.ack,
                                     written |-> r.payload, stored |-> FALSE]
                          /\ UNCHANGED <<inflight_packets,
                                         time_of_last_sent_ack_eliciting_packet>>
                     ELSE /\ time_of_last_sent_ack_eliciting_packet' =
                                (IF r.is_ack_eliciting THEN Some(now)
                                 ELSE time_of_last_sent_ack_eliciting_packet)
                          /\ inflight_packets' =
                                DqPush(inflight_packets,
                                       Some(Packet(now, r.payload, r.sent_bytes,
                                                   r.is_ack_eliciting)))
                          /\ out' = [op |-> "try_send", returned |-> TRUE,
                                     ret |-> Some(<<DqLargest(inflight_packets),
                                                    r.sent_bytes>>),
                                     ack |-> r.ack,
                                     written |-> r.payload, stored |-> TRUE]

\* One more round of the pending-frames loop of try_send on an empty queue:
\* frames.front() is None, nothing is written and nothing breaks the loop.
FramesLoopSpin ==
    /\ pc = "frames_loop"
    /\ UNCHANGED <<streamvars, codecvars>>
    /\ frames = <<>>
    /\ UNCHANGED vars

(***************************************************************************)
(* Space::confirm and Space::recv_ack_frame.  The working state st of one  *)
(* call: the fields it changes (inf, rcvd, tls, stm, frames, loss_time),   *)
(* the calls it made to the data sources and to the RTT estimator, the     *)
(* packets it took as newly acknowledged, those it declared lost by the    *)
(* packet threshold (lost_pt) and by the time threshold (lost_tt), and     *)
(* whether it panicked.                                                    *)
(***************************************************************************)
\* Space::confirm with a drain of rcvd that also removes the slot of the
\* acknowledged ACK's largest number
RECURSIVE Confirm_drains_largest(_, _)
Confirm_drains_largest(payload, st) ==
    IF payload = <<>> \/ st.panic THEN st
    ELSE LET r == Head(payload)
         IN Confirm_drains_largest(Tail(payload),
              CASE r.k = "Ack" ->
                     [st EXCEPT !.rcvd =
                         DqDrainTo(@, SatSub(r.largest, disorder_tolerance) + 1)]
                [] r.k = "Pure" -> [st EXCEPT !.panic = TRUE]
                [] r.k = "Data" /\ r.mux = "crypto" ->
                     [st EXCEPT !.tls = confirm_data(@, r.range),
                                !.calls = Append(@, <<"confirm_data", "crypto", r.range>>)]
                [] OTHER ->
                     [st EXCEPT !.stm = confirm_data(@, r.range),
                                !.calls = Append(@, <<"confirm_data", "stream", r.range>>)])

\* Space::confirm.  A Pure record reaches todo!(), which panics.
RECURSIVE Confirm(_, _)
Confirm(payload, st) ==
    IF payload = <<>> \/ st.panic THEN st
    ELSE LET r == Head(payload)
         IN Confirm(Tail(payload),
              CASE r.k = "Ack" ->
                     [st EXCEPT !.rcvd =
                         DqDrainTo(@, SatSub(r.largest, disorder_tolerance))]
                [] r.k = "Pure" -> [st EXCEPT !.panic = TRUE]
                [] r.k = "Data" /\ r.mux = "crypto" ->
                     [st EXCEPT !.tls = confirm_data(@, r.range),
                                !.calls = Append(@, <<"confirm_data", "crypto", r.range>>)]
                [] OTHER ->
                     [st EXCEPT !.stm = confirm_data(@, r.range),
                                !.calls = Append(@, <<"confirm_data", "stream", r.range>>)])

\* `inflight_packets.get_mut(pktid).and_then(|record| record.take())`
TakePacket(d, pktid) == IF DqGet(d, pktid) = None THEN None ELSE Unwrap(DqGet(d, pktid))

\* a loop over the acknowledged packet numbers that confirms a packet and
\* leaves it in its slot
RECURSIVE TakeAcked_keeps(_, _)
TakeAcked_keeps(ids, st) ==
    IF ids = <<>> \/ st.panic THEN st
    ELSE LET taken == TakePacket(st.inf, Head(ids))
         IN IF taken = None THEN TakeAcked_keeps(Tail(ids), st)
            ELSE LET packet == Unwrap(taken)
                 IN TakeAcked_keeps(Tail(ids),
                      Confirm(packet.payload,
                        [st EXCEPT !.newly = Append(@, Head(ids)),
                                   !.ae = @ \/ packet.is_ack_eliciting]))

\* the loop over the packet numbers of the ACK frame's ranges
RECURSIVE TakeAcked(_, _)
TakeAcked(ids, st) ==
    IF ids = <<>> \/ st.panic THEN st
    ELSE LET taken == TakePacket(st.inf, Head(ids))
         IN IF taken = None THEN TakeAcked(Tail(ids), st)
            ELSE LET packet == Unwrap(taken)
                 IN TakeAcked(Tail(ids),
                      Confirm(packet.payload,
                        [st EXCEPT !.inf = DqSet(@, Head(ids), None),
                                   !.newly = Append(@, Head(ids)),
                                   !.ae = @ \/ packet.is_ack_eliciting]))

\* a re-offering that puts nothing back for a Pure record
RECURSIVE RequeueDropPure(_, _)
RequeueDropPure(payload, st) ==
    IF payload = <<>> THEN st
    ELSE LET r == Head(payload)
         IN RequeueDropPure(Tail(payload),
              CASE r.k = "Ack" -> st
                [] r.k = "Pure" -> st
                [] r.k = "Data" /\ r.mux = "crypto" ->
                     [st EXCEPT !.tls = may_loss_data(@, r.range),
                                !.calls = Append(@, <<"may_loss_data", "crypto", r.range>>)]
                [] OTHER ->
                     [st EXCEPT !.stm = may_loss_data(@, r.range),
                                !.calls = Append(@, <<"may_loss_data", "stream", r.range>>)])

\* the re-offering of a lost packet's payload
RECURSIVE Requeue(_, _)
Requeue(payload, st) ==
    IF payload = <<>> THEN st
    ELSE LET r == Head(payload)
         IN Requeue(Tail(payload),
              CASE r.k = "Ack" -> st
                [] r.k = "Pure" -> [st EXCEPT !.frames = Append(@, r.frame)]
                [] r.k = "Data" /\ r.mux = "crypto" ->
                     [st EXCEPT !.tls = may_loss_data(@, r.range),
                                !.calls = Append(@, <<"may_loss_data", "crypto", r.range>>)]
                [] OTHER ->
                     [st EXCEPT !.stm = may_loss_data(@, r.range),
                                !.calls = Append(@, <<"may_loss_data", "stream", r.range>>)])

\* the early return: a larger packet number has been acknowledged before
IsStaleAckOffByOne(stored, largest_acked) == \E v \in stored : v > largest_acked + 1

IsStaleAck(stored, largest_acked) == \E v \in stored : v > largest_acked

\* the second take of the largest acknowledged packet, with the RTT sample
RttStep(st, ack, now_, sid) ==
    LET taken == TakePacket(st.inf, ack.largest)
    IN IF taken = None THEN st
       ELSE LET packet == Unwrap(taken)
                ae == st.ae \/ packet.is_ack_eliciting
                st1 == [st EXCEPT !.inf = DqSet(@, ack.largest, None), !.ae = ae]
                st2 == IF ae
                       THEN [st1 EXCEPT !.calls =
                                Append(@, <<"rtt_update", now_ - packet.send_time,
                                            ack.delay, sid = "OneRtt">>)]
                       ELSE st1
            IN Confirm(packet.payload, st2)

\* the packets drain_to hands to the retransmission loop, with their numbers
RECURSIVE LoseDrained(_, _, _)
LoseDrained(slots, pktid, st) ==
    IF slots = <<>> THEN st
    ELSE IF Head(slots) = None THEN LoseDrained(Tail(slots), pktid + 1, st)
         ELSE LoseDrained(Tail(slots), pktid + 1,
                Requeue(Unwrap(Head(slots)).payload,
                        [st EXCEPT !.lost_pt = Append(@, pktid)]))

\* the end of the packet-threshold drain
ThresholdEnd(largest_acked) == SatSub(largest_acked, PACKET_THRESHOLD)

PacketThresholdStep(st, largest_acked) ==
    LET end == ThresholdEnd(largest_acked)
    IN LoseDrained(DqDrained(st.inf, end), st.inf.offset,
                   [st EXCEPT !.inf = DqDrainTo(@, end)])

\* the time-threshold loop over slots k..last of the deque
RECURSIVE TimeThresholdLoop(_, _, _, _, _)
TimeThresholdLoop(st, k, last, loss_delay, now_) ==
    IF k > last THEN st
    ELSE LET slot == st.inf.q[k]
         IN IF slot = None THEN TimeThresholdLoop(st, k + 1, last, loss_delay, now_)
            ELSE LET packet == Unwrap(slot)
                     pktid == st.inf.offset + k - 1
                 IN IF packet.send_time + loss_delay <= now_
                    THEN TimeThresholdLoop(
                           Requeue(packet.payload,
                                   [st EXCEPT !.inf = DqSet(@, pktid, None),
                                              !.lost_tt = Append(@, pktid)]),
                           k + 1, last, loss_delay, now_)
                    ELSE TimeThresholdLoop(
                           [st EXCEPT !.loss_time =
                               IF @ = None THEN Some(packet.send_time + loss_delay)
                               ELSE Some(Min(Unwrap(@), packet.send_time + loss_delay))],
                           k + 1, last, loss_delay, now_)

\* `iter_mut().take(PACKET_THRESHOLD).filter(|p| p.is_some())`
TimeThresholdStep(st, loss_delay, now_) ==
    TimeThresholdLoop([st EXCEPT !.loss_time = None], 1,
                      Min(PACKET_THRESHOLD, Len(st.inf.q)), loss_delay, now_)

\* the number of leading empty slots
LeadingNone(q) ==
    CHOOSE n \in 0..Len(q) :
        /\ \A k \in 1..n : q[k] = None
        /\ n = Len(q) \/ q[n + 1] # None

\* the compaction at the end of recv_ack_frame
CompactKeepBase(d) == DqDrainFrontKeepBase(d, LeadingNone(d.q))

Compact(d) == DqDrainFront(d, LeadingNone(d.q))

\* an ACK frame as the peer sends it, without ECN counts
AckFrame(largest, first_range, ranges) ==
    [largest |-> largest, delay |-> 0, first_range |-> first_range,
     ranges |-> ranges, ecn |-> FALSE]

\* the ACK frames the peer sends: for packet numbers this space has issued,
\* one range, or two ranges of one packet each
AckFrames ==
    {AckFrame(l, f, <<>>) : l \in 0..(DqLargest(inflight_packets) - 1),
                            f \in 0..(DqLargest(inflight_packets) - 1)}
      \cup {AckFrame(l, 0, <<(<<g, 0>>)>>) :
               l \in 0..(DqLargest(inflight_packets) - 1), g \in 0..1}

WellFormedAck(ack) ==
    /\ ack.first_range <= ack.largest
    /\ Len(AckRanges(ack)) = 1 + Len(ack.ranges)

\* the loss delays the RTT estimator handed in with the frame answers with
LossDelays == {max_ack_delay, 4 * max_ack_delay}

RecvAckRun(ack, loss_delay) ==
    LET st0 == [inf |-> inflight_packets, rcvd |-> rcvd_packets,
                tls |-> tls_trans, stm |-> stm_trans, frames |-> frames,
                loss_time |-> loss_time, calls |-> <<>>, newly |-> <<>>,
                ae |-> FALSE, panic |-> FALSE, lost_pt |-> <<>>,
                lost_tt |-> <<>>]
        st1 == TakeAcked(AckPktIds(ack), st0)
        st2 == IF st1.panic \/ st1.newly = <<>> THEN st1
               ELSE IF ack.ecn THEN [st1 EXCEPT !.panic = TRUE]
               ELSE RttStep(st1, ack, now, space_id)
    IN IF st2.panic \/ st2.newly = <<>> THEN st2
       ELSE LET a == PacketThresholdStep(st2, ack.largest)
                b == TimeThresholdStep(a, loss_delay, now)
            IN [b EXCEPT !.inf = Compact(@)]

RecvAck(ack, loss_delay) ==
    /\ pc = "idle"
    /\ UNCHANGED <<streamvars, codecvars>>
    /\ WellFormedAck(ack)
    /\ UNCHANGED <<space_id, time_of_last_sent_ack_eliciting_packet,
                   largest_rcvd_ack_eliciting_pktid, last_synced_ack_largest,
                   new_lost_event, rcvd_unreached_packet, time_to_sync, now>>
    /\ IF IsStaleAck(largest_acked_pktid, ack.largest)
       THEN /\ out' = [op |-> "recv_ack", ack |-> ack, stale |-> TRUE,
                       result |-> "None", newly |-> <<>>, lost_pt |-> <<>>,
                       lost_tt |-> <<>>, calls |-> <<>>]
            /\ UNCHANGED <<frames, inflight_packets, largest_acked_pktid, loss_time,
                           rcvd_packets, tls_trans, stm_trans, pc>>
       ELSE \E st3 \in {RecvAckRun(ack, loss_delay)} :
               /\ largest_acked_pktid' = Some(ack.largest)
               /\ inflight_packets' = st3.inf
               /\ rcvd_packets' = st3.rcvd
               /\ tls_trans' = st3.tls
               /\ stm_trans' = st3.stm
               /\ frames' = st3.frames
               /\ loss_time' = st3.loss_time
               /\ pc' = IF st3.panic THEN "panicked" ELSE pc
               /\ out' = [op |-> "recv_ack", ack |-> ack, stale |-> FALSE,
                          result |-> IF st3.panic THEN "panic"
                                     ELSE IF st3.newly = <<>> THEN "None" ELSE "Some",
                          newly |-> st3.newly, lost_pt |-> st3.lost_pt,
                          lost_tt |-> st3.lost_tt, calls |-> st3.calls]

(***************************************************************************)
(* SpaceIO::upgrade                                                        *)
(***************************************************************************)
\* SpaceIO::upgrade with a reset of the ACK timer
Upgrade_clears_sync ==
    /\ pc = "idle"
    /\ UNCHANGED <<streamvars, codecvars>>
    /\ space_id \in {"ZeroRtt", "OneRtt"}
    /\ IF space_id = "ZeroRtt"
       THEN space_id' = "OneRtt" /\ pc' = pc /\ time_to_sync' = None
       ELSE space_id' = space_id /\ pc' = "panicked" /\ time_to_sync' = time_to_sync
    /\ out' = [op |-> "upgrade"]
    /\ UNCHANGED <<rcvd_packets, largest_rcvd_ack_eliciting_pktid,
                   last_synced_ack_largest, new_lost_event, rcvd_unreached_packet>>
    /\ UNCHANGED now
    /\ UNCHANGED sendvars
    /\ UNCHANGED muxvars

\* SpaceIO::upgrade, a method of the data space (0-RTT, then 1-RTT): on a
\* space that is 1-RTT already the assert_eq! fails.
Upgrade ==
    /\ pc = "idle"
    /\ UNCHANGED <<streamvars, codecvars>>
    /\ space_id \in {"ZeroRtt", "OneRtt"}
    /\ IF space_id = "ZeroRtt"
       THEN space_id' = "OneRtt" /\ pc' = pc
       ELSE space_id' = space_id /\ pc' = "panicked"
    /\ out' = [op |-> "upgrade"]
    /\ UNCHANGED now
    /\ UNCHANGED ackvars
    /\ UNCHANGED sendvars
    /\ UNCHANGED muxvars

(***************************************************************************)
(* The environment: the clock, and the writers of the data sources.        *)
(***************************************************************************)
Tick ==
    /\ pc = "idle"
    /\ UNCHANGED <<streamvars, codecvars>>
    /\ now < MaxTicks * max_ack_delay
    /\ now' = now + max_ack_delay
    /\ out' = [op |-> "tick"]
    /\ UNCHANGED <<space_id, pc>>
    /\ UNCHANGED ackvars
    /\ UNCHANGED sendvars
    /\ UNCHANGED muxvars

\* the handshake writes a range of crypto data
CryptoWrite ==
    /\ pc = "idle"
    /\ UNCHANGED <<streamvars, codecvars>>
    /\ tls_trans.created < MaxChunks
    /\ tls_trans' = [tls_trans EXCEPT !.unsent = @ \cup {tls_trans.created},
                                      !.created = @ + 1]
    /\ out' = [op |-> "crypto_write"]
    /\ UNCHANGED <<space_id, stm_trans, now, pc>>
    /\ UNCHANGED ackvars
    /\ UNCHANGED sendvars

\* a stream writer writes a range of stream data (data spaces only: the
\* Initial and Handshake spaces have NoStreams)
StreamWrite ==
    /\ pc = "idle"
    /\ UNCHANGED <<streamvars, codecvars>>
    /\ space_id \in {"ZeroRtt", "OneRtt"}
    /\ stm_trans.created < MaxChunks
    /\ stm_trans' = [stm_trans EXCEPT !.unsent = @ \cup {stm_trans.created},
                                      !.created = @ + 1]
    /\ out' = [op |-> "stream_write"]
    /\ UNCHANGED <<space_id, tls_trans, now, pc>>
    /\ UNCHANGED ackvars
    /\ UNCHANGED sendvars

\* the stream source has a stream control frame to send
StreamCtlReady ==
    /\ pc = "idle"
    /\ UNCHANGED <<streamvars, codecvars>>
    /\ space_id \in {"ZeroRtt", "OneRtt"}
    /\ ~stm_trans.ctl
    /\ stm_trans' = [stm_trans EXCEPT !.ctl = TRUE]
    /\ out' = [op |-> "stream_ctl"]
    /\ UNCHANGED <<space_id, tls_trans, now, pc>>
    /\ UNCHANGED ackvars
    /\ UNCHANGED sendvars

\* buffer capacities try_send is called with
BufCaps == {4, 9, 13, 30}

Next ==
    \/ \E f \in PureFrames : WriteFrame(f)
    \/ \E pn \in 0..MaxRcvPn, ae \in BOOLEAN : Record(pn, ae)
    \/ \E cap \in BufCaps : DqLargest(inflight_packets) < MaxPn /\ TrySend(cap)
    \/ FramesLoopSpin
    \/ \E ack \in AckFrames, ld \in LossDelays : RecvAck(ack, ld)
    \/ Upgrade
    \/ Tick
    \/ CryptoWrite
    \/ StreamWrite
    \/ StreamCtlReady

Spec == Init /\ [][Next]_vars

(***************************************************************************)
(* ACK generation alone: a space that only receives.  The peer's packets   *)
(* 0..MaxAckPn arrive in any order, each at most once.                     *)
(***************************************************************************)
InitAck == Build("Initial") /\ StreamIdle /\ CodecIdle

NextAck == \E pn \in 0..MaxAckPn, ae \in BOOLEAN : Record(pn, ae)

SpecAck == InitAck /\ [][NextAck]_vars

(***************************************************************************)
(* Loss detection: a data space that sends up to MaxLossPn packets of      *)
(* stream data and stream control frames past a blocked control frame, and *)
(* receives the peer's ACK frames.                                         *)
(***************************************************************************)
InitLoss == Build("ZeroRtt") /\ StreamIdle /\ CodecIdle

LossBufCaps == {8}

NextLoss ==
    \/ \E f \in PureFrames : Len(frames) = 0 /\ WriteFrame(f)
    \/ \E cap \in LossBufCaps : DqLargest(inflight_packets) < MaxLossPn /\ TrySend(cap)
    \/ FramesLoopSpin
    \/ \E ack \in AckFrames, ld \in LossDelays : RecvAck(ack, ld)
    \/ Tick
    \/ StreamWrite
    \/ StreamCtlReady

SpecLoss == InitLoss /\ [][NextLoss]_vars

(***************************************************************************)
(* Loss detection with ACK records: a data space, upgraded to 1-RTT, that  *)
(* receives a packet and sends up to MaxLossPn packets of ACK frames,      *)
(* crypto data, stream data and stream control frames, and receives the    *)
(* peer's ACK frames with a loss delay of max_ack_delay.                   *)
(***************************************************************************)
NextRequeue ==
    \/ \E f \in PureFrames : Len(frames) = 0 /\ WriteFrame(f)
    \/ \E cap \in LossBufCaps : DqLargest(inflight_packets) < MaxLossPn /\ TrySend(cap)
    \/ FramesLoopSpin
    \/ \E ack \in AckFrames : RecvAck(ack, max_ack_delay)
    \/ \E pn \in 0..MaxRcvPn : Record(pn, TRUE)
    \/ space_id = "ZeroRtt" /\ Upgrade
    \/ Tick
    \/ CryptoWrite
    \/ StreamWrite
    \/ StreamCtlReady

SpecRequeue == InitLoss /\ [][NextRequeue]_vars

(***************************************************************************)
(* Late packets: a data space, upgraded to 1-RTT, that receives the peer's *)
(* packets 0..MaxUnreachedPn in any order, each at most once, and sends    *)
(* packets with ACK frames past a pending control frame in between.        *)
(***************************************************************************)
MaxUnreachedPn == 2

NextUnreached ==
    \/ \E f \in PureFrames : Len(frames) = 0 /\ WriteFrame(f)
    \/ \E pn \in 0..MaxUnreachedPn, ae \in BOOLEAN : Record(pn, ae)
    \/ \E cap \in BufCaps : DqLargest(inflight_packets) < MaxPn /\ TrySend(cap)
    \/ FramesLoopSpin
    \/ space_id = "ZeroRtt" /\ Upgrade
    \/ Tick

SpecUnreached == InitLoss /\ [][NextUnreached]_vars

(***************************************************************************)
(* Acknowledged ACKs: a data space, upgraded to 1-RTT, that receives the   *)
(* peer's packets 0..MaxDrainPn in any order, sends packets with ACK       *)
(* frames, stream data and stream control frames past a pending control    *)
(* frame, and receives the peer's ACK frames for them.                     *)
(***************************************************************************)
MaxDrainPn == 2

NextDrain ==
    \/ \E f \in PureFrames : Len(frames) = 0 /\ WriteFrame(f)
    \/ \E pn \in 0..MaxDrainPn, ae \in BOOLEAN : Record(pn, ae)
    \/ \E cap \in BufCaps : DqLargest(inflight_packets) < MaxPn /\ TrySend(cap)
    \/ FramesLoopSpin
    \/ \E ack \in AckFrames : RecvAck(ack, max_ack_delay)
    \/ space_id = "ZeroRtt" /\ Upgrade
    \/ Tick
    \/ StreamWrite
    \/ StreamCtlReady

SpecDrain == InitLoss /\ [][NextDrain]_vars

(***************************************************************************)
(* The pending queue: a data space, 0-RTT and then 1-RTT, whose callers    *)
(* queue control frames of several kinds and sizes, that sends them in     *)
(* packets next to crypto and stream data and receives the peer's ACK      *)
(* frames.                                                                 *)
(***************************************************************************)
\* the frames write_frame is called with: not all of them belong to 0-RTT
QueueFrames == {DataBlocked(1073741824), MaxStreamData(0, 1), PathResponse}

NextFrames ==
    \/ \E f \in QueueFrames : WriteFrame(f)
    \/ \E cap \in BufCaps : DqLargest(inflight_packets) < MaxPn + 1 /\ TrySend(cap)
    \/ FramesLoopSpin
    \/ \E ack \in AckFrames : RecvAck(ack, max_ack_delay)
    \/ space_id = "ZeroRtt" /\ Upgrade
    \/ Tick
    \/ CryptoWrite
    \/ StreamWrite

SpecFrames == InitLoss /\ [][NextFrames]_vars

(***************************************************************************)
(* The loss scenario: a data space sends packets 0..10, each with a        *)
(* pending control frame (so each is ack-eliciting) and a stream control   *)
(* frame, and the peer acknowledges packets 4..10 in one ACK frame.        *)
(***************************************************************************)
InitScenario == Build("ZeroRtt") /\ StreamIdle /\ CodecIdle

ScenarioBufCaps == {13}

\* the ACK frame for packets 4..10
ScenarioAck == AckFrame(10, 6, <<>>)

NextScenario ==
    \/ \E f \in PureFrames : WriteFrame(f)
    \/ \E cap \in ScenarioBufCaps :
          DqLargest(inflight_packets) < MaxScenarioPn /\ TrySend(cap)
    \/ FramesLoopSpin
    \/ \E ld \in LossDelays :
          ScenarioAck.largest < DqLargest(inflight_packets) /\ RecvAck(ScenarioAck, ld)
    \/ Tick
    \/ StreamCtlReady

SpecScenario == InitScenario /\ [][NextScenario]_vars

(***************************************************************************)
(* The stream sender and its Writer (send/writer.rs).  The Writer locks    *)
(* the shared Sender, takes the variant out, acts on it and puts a variant *)
(* back.  ReadySender, SendingSender and DataSentSender are one record     *)
(* here; DataRecvd, ResetSent(final_size) and ResetRecvd hold no sender.   *)
(* What a poll of the inner sender answers is an input of the Writer's     *)
(* call: "Pending", "Ok" or "Err".                                         *)
(***************************************************************************)
\* the send window: the bytes a sender takes before poll_write is Pending
MaxStreamBytes == 3

\* the lengths of the buffers poll_write is called with
WriteLens == {1, 2}

DataRecvd ==
    [state |-> "DataRecvd", offset |-> 0, sent |-> 0, acked |-> 0,
     final |-> None, cancel |-> FALSE]

ResetSent(final_size) ==
    [state |-> "ResetSent", offset |-> 0, sent |-> 0, acked |-> 0,
     final |-> Some(final_size), cancel |-> FALSE]

ResetRecvd ==
    [state |-> "ResetRecvd", offset |-> 0, sent |-> 0, acked |-> 0,
     final |-> None, cancel |-> FALSE]

\* ReadySender::poll_write, SendingSender::poll_write: the buffer takes bytes
\* up to the send window, and the write is Pending when the window is full
sender_poll_write(s, len) ==
    IF s.offset < MaxStreamBytes
    THEN [ret |-> "Ok", n |-> Min(len, MaxStreamBytes - s.offset),
          s |-> [s EXCEPT !.offset = @ + Min(len, MaxStreamBytes - s.offset)]]
    ELSE [ret |-> "Pending", n |-> 0, s |-> s]

\* the inner poll_flush: Ok when the acknowledged offset is the total
\* written, Pending before that, or an error
sender_poll_flush(s) == (IF s.acked = s.offset THEN {"Ok"} ELSE {"Pending"}) \cup {"Err"}

\* the inner poll_shutdown: Ok when all the data has been sent and
\* acknowledged, Pending before that, or an error
sender_poll_shutdown(s) == (IF s.acked = s.offset THEN {"Ok"} ELSE {"Pending"}) \cup {"Err"}

\* SendingSender::end: the DataSentSender, the accumulated offset its final size
end(s) == [s EXCEPT !.state = "DataSent", !.final = Some(s.offset)]

\* the inner cancel: sets the cancel flag
cancel(s) == [s EXCEPT !.cancel = TRUE]

\* poll_write where it does not delegate: with the errors exchanged
poll_write_error_swapped(state) ==
    IF state \in {"DataSent", "DataRecvd"} THEN "BrokenPipe" ELSE "Unsupported"

\* poll_write where it does not delegate: the io::ErrorKind it returns
poll_write_error(state) ==
    IF state \in {"DataSent", "DataRecvd"} THEN "Unsupported" ELSE "BrokenPipe"

PollWrite(len) ==
    /\ ~writer_dropped
    /\ UNCHANGED <<spacevars, codecvars, writer_dropped>>
    /\ IF sender.state \in {"Ready", "Sending"}
       THEN \E r \in {sender_poll_write(sender, len)} :
               /\ sender' = r.s
               /\ out' = [op |-> "poll_write", delegated |-> TRUE,
                          ret |-> r.ret, n |-> r.n]
       ELSE /\ sender' = sender
            /\ out' = [op |-> "poll_write", delegated |-> FALSE,
                       ret |-> poll_write_error(sender.state), n |-> 0]

\* a DataSent arm that reopens the stream while the poll is Pending
data_sent_after_poll_reopen(s, result) ==
    IF result = "Pending" THEN [s EXCEPT !.state = "Sending"] ELSE DataRecvd

\* the DataSent arm of poll_flush and of poll_shutdown: the variant put back
data_sent_after_poll(s, result) ==
    IF result = "Pending" THEN s ELSE DataRecvd

PollFlush ==
    /\ ~writer_dropped
    /\ UNCHANGED <<spacevars, codecvars, writer_dropped>>
    /\ CASE sender.state \in {"Ready", "Sending"} ->
              \E result \in sender_poll_flush(sender) :
                 /\ sender' = sender
                 /\ out' = [op |-> "poll_flush", delegated |-> TRUE, ret |-> result]
         [] sender.state = "DataSent" ->
              \E result \in sender_poll_flush(sender) :
                 /\ sender' = data_sent_after_poll(sender, result)
                 /\ out' = [op |-> "poll_flush", delegated |-> TRUE, ret |-> result]
         [] sender.state = "DataRecvd" ->
              /\ sender' = sender
              /\ out' = [op |-> "poll_flush", delegated |-> FALSE, ret |-> "Ok"]
         [] OTHER ->
              /\ sender' = sender
              /\ out' = [op |-> "poll_flush", delegated |-> FALSE, ret |-> "BrokenPipe"]

\* the Sending arm of poll_shutdown: the variant put back
sending_after_shutdown(s, result) ==
    IF result = "Pending" THEN end(s) ELSE DataRecvd

PollShutdown ==
    /\ ~writer_dropped
    /\ UNCHANGED <<spacevars, codecvars, writer_dropped>>
    /\ CASE sender.state = "Ready" ->
              \E result \in sender_poll_shutdown(sender) :
                 /\ sender' = sender
                 /\ out' = [op |-> "poll_shutdown", delegated |-> TRUE, ret |-> result]
         [] sender.state = "Sending" ->
              \E result \in sender_poll_shutdown(sender) :
                 /\ sender' = sending_after_shutdown(sender, result)
                 /\ out' = [op |-> "poll_shutdown", delegated |-> TRUE, ret |-> result]
         [] sender.state = "DataSent" ->
              \E result \in sender_poll_shutdown(sender) :
                 /\ sender' = data_sent_after_poll(sender, result)
                 /\ out' = [op |-> "poll_shutdown", delegated |-> TRUE, ret |-> result]
         [] sender.state = "DataRecvd" ->
              /\ sender' = sender
              /\ out' = [op |-> "poll_shutdown", delegated |-> FALSE, ret |-> "Ok"]
         [] OTHER ->
              /\ sender' = sender
              /\ out' = [op |-> "poll_shutdown", delegated |-> FALSE, ret |-> "BrokenPipe"]

\* a drop that does not cancel a sender in DataSent
drop_keeps_data_sent(s) ==
    IF s.state \in {"Ready", "Sending"} THEN cancel(s) ELSE s

\* Drop for Writer: the variant put back
drop(s) ==
    IF s.state \in {"Ready", "Sending", "DataSent"} THEN cancel(s) ELSE s

DropWriter ==
    /\ ~writer_dropped
    /\ writer_dropped' = TRUE
    /\ sender' = drop(sender)
    /\ out' = [op |-> "drop"]
    /\ UNCHANGED <<spacevars, codecvars>>

(***************************************************************************)
(* The other holder of the Sender: the stream data source of the space and *)
(* the frames of the peer (transitions of the sender state machine).       *)
(***************************************************************************)
\* a byte is handed to the packet assembler; the first one makes Ready Sending
SenderEmit ==
    /\ sender.state \in {"Ready", "Sending", "DataSent"}
    /\ sender.sent < sender.offset
    /\ sender' = [sender EXCEPT !.sent = @ + 1,
                                !.state = IF @ = "Ready" THEN "Sending" ELSE @]
    /\ out' = [op |-> "emit"]
    /\ UNCHANGED <<spacevars, codecvars, writer_dropped>>

\* the peer acknowledges a sent byte
SenderAcked ==
    /\ sender.state \in {"Sending", "DataSent"}
    /\ sender.acked < sender.sent
    /\ sender' = [sender EXCEPT !.acked = @ + 1]
    /\ out' = [op |-> "acked"]
    /\ UNCHANGED <<spacevars, codecvars, writer_dropped>>

\* the final size a reset carries: 0 in Ready, the current offset in Sending,
\* the final size in DataSent
ResetFinalSize(s) ==
    CASE s.state = "Ready" -> 0
      [] s.state = "Sending" -> s.offset
      [] OTHER -> Unwrap(s.final)

\* a sender with its cancel flag set queues RESET_STREAM
CancelTakesEffect ==
    /\ sender.state \in {"Ready", "Sending", "DataSent"}
    /\ sender.cancel
    /\ sender' = ResetSent(ResetFinalSize(sender))
    /\ out' = [op |-> "cancel_effect"]
    /\ UNCHANGED <<spacevars, codecvars, writer_dropped>>

\* the peer's STOP_SENDING
StopSending ==
    /\ sender.state = "DataSent"
    /\ sender' = ResetSent(ResetFinalSize(sender))
    /\ out' = [op |-> "stop_sending"]
    /\ UNCHANGED <<spacevars, codecvars, writer_dropped>>

\* the peer acknowledges the reset
ResetAcked ==
    /\ sender.state = "ResetSent"
    /\ sender' = ResetRecvd
    /\ out' = [op |-> "reset_acked"]
    /\ UNCHANGED <<spacevars, codecvars, writer_dropped>>

InitWriter == Build("ZeroRtt") /\ StreamIdle /\ CodecIdle

NextWriter ==
    \/ \E len \in WriteLens : PollWrite(len)
    \/ PollFlush
    \/ PollShutdown
    \/ DropWriter
    \/ SenderEmit
    \/ SenderAcked
    \/ CancelTakesEffect
    \/ StopSending
    \/ ResetAcked

SpecWriter == InitWriter /\ [][NextWriter]_vars

\* the same, with the sender's reaction to its cancel flag not put off forever
SpecWriterLive == InitWriter /\ [][NextWriter]_vars /\ WF_vars(CancelTakesEffect)

(***************************************************************************)
(* The frame codec (qbase/src/frame).  Bytes are numbers 0..255, a buffer  *)
(* is a sequence of bytes, and a parser answers None on an error or on an  *)
(* incomplete input, else Some of the remaining input and the value.       *)
(***************************************************************************)
STREAM_FRAME_TYPE == 8
OFF_BIT == 4
LEN_BIT == 2
FIN_BIT == 1
CONNECTION_CLOSE_FRAME_TYPE == 28
QUIC_LAYER == 1
APP_LAYER == 0

\* `x & bit != 0` for a one-bit mask
HasBit(x, bit) == (x \div bit) % 2 = 1

\* `a | b` on the three flag bits
BitOr3(a, b) ==
    (IF HasBit(a, 4) \/ HasBit(b, 4) THEN 4 ELSE 0)
      + (IF HasBit(a, 2) \/ HasBit(b, 2) THEN 2 ELSE 0)
      + (IF HasBit(a, 1) \/ HasBit(b, 1) THEN 1 ELSE 0)

\* put_varint: the shortest form, of one, two or four bytes
put_varint(v) ==
    IF v < 64 THEN <<v>>
    ELSE IF v < 16384 THEN <<64 + (v \div 256), v % 256>>
    ELSE <<128 + (v \div 16777216), (v \div 65536) % 256, (v \div 256) % 256, v % 256>>

\* be_varint: the two high bits of the first byte give the length.  A value
\* of 62 bits is held as two halves of 31 bits: `value` the low half, `high`
\* the high half (0 for the forms of one, two and four bytes).
be_varint(input) ==
    IF input = <<>> THEN None
    ELSE LET prefix == input[1] \div 64
             first == input[1] % 64
         IN CASE prefix = 0 ->
                   Some([remain |-> SubSeq(input, 2, Len(input)), value |-> first,
                         high |-> 0])
              [] prefix = 1 /\ Len(input) >= 2 ->
                   Some([remain |-> SubSeq(input, 3, Len(input)),
                         value |-> first * 256 + input[2], high |-> 0])
              [] prefix = 2 /\ Len(input) >= 4 ->
                   Some([remain |-> SubSeq(input, 5, Len(input)),
                         value |-> first * 16777216 + input[2] * 65536
                                     + input[3] * 256 + input[4],
                         high |-> 0])
              [] prefix = 3 /\ Len(input) >= 8 ->
                   Some([remain |-> SubSeq(input, 9, Len(input)),
                         value |-> (input[5] % 128) * 16777216 + input[6] * 65536
                                     + input[7] * 256 + input[8],
                         high |-> first * 33554432 + input[2] * 131072
                                    + input[3] * 512 + input[4] * 2
                                    + (input[5] \div 128)])
              [] OTHER -> None

\* VarInt::from_u32(n as u32): the low 32 bits, as two halves of 16 bits
from_u32(n) == (n % 65536) + 65536 * ((n \div 65536) % 65536)

\* StreamFrame::new.  offset and length are held as be_varint holds a value:
\* offset_high and length_high are their high halves.
StreamFrame_new(id, offset, length) ==
    [id |-> id, offset |-> offset, offset_high |-> 0, length |-> length,
     length_high |-> 0, flag |-> 0]

set_eos_flag(frame, is_eos) ==
    [frame EXCEPT !.flag = IF is_eos THEN BitOr3(@, FIN_BIT)
                           ELSE IF HasBit(@, FIN_BIT) THEN @ - FIN_BIT ELSE @]

carry_length(frame) == [frame EXCEPT !.flag = BitOr3(@, LEN_BIT)]

\* StreamFrame::should_carry_length with `remaining < len_encoding_size`
should_carry_length_strict(frame, capacity) ==
    LET frame_encoding_size ==
            1 + VarintLen(frame.id)
              + (IF frame.offset # 0 THEN VarintLen(frame.offset) ELSE 0)
              + (IF HasBit(frame.flag, LEN_BIT) THEN VarintLen(frame.length) ELSE 0)
              + frame.length
        len_encoding_size == VarintLen(frame.length)
        remaining == capacity - frame_encoding_size
    IN IF ~(frame_encoding_size <= capacity) THEN [k |-> "panic"]
       ELSE IF frame_encoding_size = capacity THEN [k |-> "NoProblem"]
       ELSE IF remaining < len_encoding_size
       THEN [k |-> "PaddingFirst", n |-> remaining]
       ELSE [k |-> "ShouldAfter", n |-> remaining - len_encoding_size, m |-> remaining]

\* StreamFrame::should_carry_length, with StreamFrame::encoding_size as
\* frame_encoding_size: the type, the stream id, the offset when it is not
\* 0, the length when the LEN bit is set, and the data.  The assertion
\* fails (panic) on a capacity below it.
should_carry_length(frame, capacity) ==
    LET frame_encoding_size ==
            1 + VarintLen(frame.id)
              + (IF frame.offset # 0 THEN VarintLen(frame.offset) ELSE 0)
              + (IF HasBit(frame.flag, LEN_BIT) THEN VarintLen(frame.length) ELSE 0)
              + frame.length
        len_encoding_size == VarintLen(frame.length)
        remaining == capacity - frame_encoding_size
    IN IF ~(frame_encoding_size <= capacity) THEN [k |-> "panic"]
       ELSE IF frame_encoding_size = capacity THEN [k |-> "NoProblem"]
       ELSE IF remaining <= len_encoding_size
       THEN [k |-> "PaddingFirst", n |-> remaining]
       ELSE [k |-> "ShouldAfter", n |-> remaining - len_encoding_size, m |-> remaining]

\* ConnectionCloseFrame::new
ConnectionCloseFrame_new(error_kind, frame_type, reason) ==
    [error_code |-> error_kind, frame_type |-> frame_type, reason |-> reason]

put_stream_frame(frame, data) ==
    LET stream_type == IF frame.offset # 0 THEN STREAM_FRAME_TYPE + 4 ELSE STREAM_FRAME_TYPE
    IN <<STREAM_FRAME_TYPE + BitOr3(stream_type - STREAM_FRAME_TYPE, frame.flag)>>
         \o put_varint(frame.id)
         \o (IF frame.offset # 0 THEN put_varint(frame.offset) ELSE <<>>)
         \o (IF HasBit(frame.flag, LEN_BIT) THEN put_varint(from_u32(frame.length)) ELSE <<>>)
         \o data

\* the check on the high halves alone
TooLarge_high_only(offset, length) == offset.high > 2147483647 - length.high

\* `offset.into_inner() + length as u64 > VARINT_MAX`, VARINT_MAX = 2^62 - 1,
\* on the halves of offset and length: the sum of the low halves carries
\* into the high halves, and the sum is above VARINT_MAX when its high half
\* is above 2^31 - 1
TooLarge(offset, length) ==
    LET carry == IF offset.value > 2147483647 - length.value THEN 1 ELSE 0
    IN offset.high > (2147483647 - length.high) - carry

\* stream_frame_with_flag(flag): the frame after its type (no buffer of the
\* model holds a stream id of eight bytes)
stream_frame_with_flag(flag, input) ==
    LET id == be_varint(input)
    IN IF id = None THEN None
       ELSE LET off == IF HasBit(flag, OFF_BIT) THEN be_varint(Unwrap(id).remain)
                       ELSE Some([remain |-> Unwrap(id).remain, value |-> 0,
                                  high |-> 0])
            IN IF off = None THEN None
               ELSE LET len == IF HasBit(flag, LEN_BIT) THEN be_varint(Unwrap(off).remain)
                               ELSE Some([remain |-> Unwrap(off).remain,
                                          value |-> Len(Unwrap(off).remain),
                                          high |-> 0])
                    IN IF len = None THEN None
                       ELSE IF TooLarge(Unwrap(off), Unwrap(len)) THEN None
                       ELSE Some([remain |-> Unwrap(len).remain,
                                  value |-> [id |-> Unwrap(id).value,
                                             offset |-> Unwrap(off).value,
                                             offset_high |-> Unwrap(off).high,
                                             length |-> Unwrap(len).value,
                                             length_high |-> Unwrap(len).high,
                                             flag |-> flag]])

\* the frame types FrameType::try_from takes (0x00..0x06, 0x08..0x0f,
\* 0x10..0x15)
RecognizedTypes == (0..6) \cup (8..15) \cup (16..21)

\* be_frame: be_frame_type (the type varint cast `as u8`), then
\* complete_frame for a PING frame (type 0x01; it has no field) and for a
\* STREAM frame
be_frame(input) ==
    LET ty == be_varint(input)
    IN IF ty = None THEN None
       ELSE LET frame_type == Unwrap(ty).value % 256
            IN IF frame_type \notin RecognizedTypes THEN None
               ELSE IF frame_type = 1
               THEN Some([remain |-> Unwrap(ty).remain, frame |-> [kind |-> "Ping"]])
               ELSE IF frame_type \notin 8..15 THEN None
               ELSE LET r == stream_frame_with_flag(frame_type % 8, Unwrap(ty).remain)
                    IN IF r = None THEN None
                       ELSE LET rest == Unwrap(r).remain
                                frame == Unwrap(r).value
                            IN IF frame.length_high > 0 \/ Len(rest) < frame.length
                               THEN None
                               ELSE Some([remain |-> SubSeq(rest, frame.length + 1, Len(rest)),
                                          frame |-> frame,
                                          data |-> SubSeq(rest, 1, frame.length)])

put_connection_close_frame(frame) ==
    LET layer == IF frame.frame_type # None THEN QUIC_LAYER ELSE APP_LAYER
    IN <<CONNECTION_CLOSE_FRAME_TYPE + layer>>
         \o put_varint(frame.error_code)
         \o (IF frame.frame_type # None THEN put_varint(Unwrap(frame.frame_type)) ELSE <<>>)
         \o put_varint(from_u32(Len(frame.reason)))
         \o frame.reason

\* String::from_utf8_lossy on bytes that are ASCII or not UTF-8 at all: a
\* byte above 0x7f becomes U+FFFD
RECURSIVE from_utf8_lossy(_)
from_utf8_lossy(bytes) ==
    IF bytes = <<>> THEN <<>>
    ELSE (IF Head(bytes) < 128 THEN <<Head(bytes)>> ELSE <<239, 191, 189>>)
           \o from_utf8_lossy(Tail(bytes))

connection_close_frame_at_layer(layer, input) ==
    LET ec == be_varint(input)
    IN IF ec = None THEN None
       ELSE LET ft == IF layer = QUIC_LAYER THEN be_varint(Unwrap(ec).remain)
                      ELSE Some([remain |-> Unwrap(ec).remain, value |-> 0,
                                 high |-> 0])
            IN IF ft = None THEN None
               ELSE LET rl == be_varint(Unwrap(ft).remain)
                    IN IF rl = None \/ Len(Unwrap(rl).remain) < Unwrap(rl).value THEN None
                       ELSE LET rest == Unwrap(rl).remain
                                n == Unwrap(rl).value
                            IN Some([remain |-> SubSeq(rest, n + 1, Len(rest)),
                                     frame |-> [error_code |-> Unwrap(ec).value,
                                                frame_type |-> IF layer = QUIC_LAYER
                                                               THEN Some(Unwrap(ft).value)
                                                               ELSE None,
                                                reason |-> from_utf8_lossy(SubSeq(rest, 1, n))]])

\* the frame type, then connection_close_frame_at_layer for its low bit
\* (be_frame does not take the types 0x1c and 0x1d)
be_connection_close_frame(input) ==
    LET ty == be_varint(input)
    IN IF ty = None THEN None
       ELSE IF Unwrap(ty).value \notin {CONNECTION_CLOSE_FRAME_TYPE,
                                       CONNECTION_CLOSE_FRAME_TYPE + 1} THEN None
       ELSE connection_close_frame_at_layer(Unwrap(ty).value - CONNECTION_CLOSE_FRAME_TYPE,
                                            Unwrap(ty).remain)

\* the frames handed to the codec: data of 0..MaxDataLen bytes and of
\* LongDataLen bytes (a length of two bytes), a reason of 0..MaxReasonLen
\* letters, a packet with 1..MaxCapacity bytes left
MaxDataLen == 2
LongDataLen == 64
MaxReasonLen == 2
MaxCapacity == 72

\* n bytes of stream data, n letters of a reason phrase
Bytes(n) == [i \in 1..n |-> 103 + i]

\* the STREAM frames the public constructors make: new, then set_eos_flag
\* and carry_length, each with the data of its length
StreamInputs ==
    {[kind |-> "Stream",
      frame |-> LET a == StreamFrame_new(id, offset, n)
                    b == set_eos_flag(a, fin)
                IN IF carry THEN carry_length(b) ELSE b,
      data |-> Bytes(n)] :
        id \in {0, 70}, offset \in {0, 1, 300}, n \in (0..MaxDataLen) \cup {LongDataLen},
        fin \in BOOLEAN, carry \in BOOLEAN}

ConnectionCloseInputs ==
    {[kind |-> "ConnectionClose",
      frame |-> ConnectionCloseFrame_new(ec, ft, Bytes(n))] :
        ec \in {0, 4660}, ft \in {None, Some(6), Some(70)}, n \in 0..MaxReasonLen}

InitCodec ==
    /\ Build("ZeroRtt")
    /\ StreamIdle
    /\ \E x \in StreamInputs \cup ConnectionCloseInputs : input_frame = Some(x)
    /\ wire = None
    /\ parsed = None

\* the packet assembly asks whether the frame should carry its length in a
\* packet with capacity bytes left
ShouldCarryLength(capacity) ==
    /\ pc = "idle"
    /\ wire = None
    /\ Unwrap(input_frame).kind = "Stream"
    /\ \E r \in {should_carry_length(Unwrap(input_frame).frame, capacity)} :
          /\ out' = [op |-> "should_carry_length", capacity |-> capacity, ret |-> r]
          /\ pc' = IF r.k = "panic" THEN "panicked" ELSE pc
    /\ UNCHANGED <<space_id, ackvars, sendvars, muxvars, now, streamvars, codecvars>>

PutStreamFrame ==
    /\ pc = "idle"
    /\ wire = None
    /\ Unwrap(input_frame).kind = "Stream"
    /\ wire' = Some(put_stream_frame(Unwrap(input_frame).frame, Unwrap(input_frame).data))
    /\ out' = [op |-> "put_stream_frame"]
    /\ UNCHANGED <<spacevars, streamvars, input_frame, parsed>>

PutConnectionCloseFrame ==
    /\ pc = "idle"
    /\ wire = None
    /\ Unwrap(input_frame).kind = "ConnectionClose"
    /\ wire' = Some(put_connection_close_frame(Unwrap(input_frame).frame))
    /\ out' = [op |-> "put_connection_close_frame"]
    /\ UNCHANGED <<spacevars, streamvars, input_frame, parsed>>

\* parsing a buffer that holds a STREAM frame, or a buffer of the peer
BeFrame ==
    /\ pc = "idle"
    /\ wire # None
    /\ parsed = None
    /\ IF input_frame = None THEN TRUE ELSE Unwrap(input_frame).kind = "Stream"
    /\ parsed' = Some(be_frame(Unwrap(wire)))
    /\ out' = [op |-> "be_frame"]
    /\ UNCHANGED <<spacevars, streamvars, input_frame, wire>>

\* parsing a buffer that holds a CONNECTION_CLOSE frame
BeConnectionCloseFrame ==
    /\ pc = "idle"
    /\ wire # None
    /\ parsed = None
    /\ Unwrap(input_frame).kind = "ConnectionClose"
    /\ parsed' = Some(be_connection_close_frame(Unwrap(wire)))
    /\ out' = [op |-> "connection_close_frame_at_layer"]
    /\ UNCHANGED <<spacevars, streamvars, input_frame, wire>>

NextCodec ==
    \/ \E capacity \in 1..MaxCapacity : ShouldCarryLength(capacity)
    \/ PutStreamFrame
    \/ PutConnectionCloseFrame
    \/ BeFrame
    \/ BeConnectionCloseFrame

SpecCodec == InitCodec /\ [][NextCodec]_vars

(***************************************************************************)
(* The parsers on the buffers of a peer: be_frame on a frame with its      *)
(* type, be_new_connection_id_frame on the fields after the type 0x18.     *)
(***************************************************************************)
\* cid::MAX_CID_SIZE and cid::RESET_TOKEN_SIZE
MAX_CID_SIZE == 20
RESET_TOKEN_SIZE == 16

\* be_new_connection_id_frame without the check of the length byte
be_new_connection_id_frame_any_length(input) ==
    LET sequence == be_varint(input)
    IN IF sequence = None THEN [err |-> "Incomplete"]
       ELSE LET retire_prior_to == be_varint(Unwrap(sequence).remain)
            IN IF retire_prior_to = None THEN [err |-> "Incomplete"]
               ELSE LET seq == Unwrap(sequence)
                        rpt == Unwrap(retire_prior_to)
                        remain == rpt.remain
                    IN IF \/ rpt.high > seq.high
                          \/ rpt.high = seq.high /\ rpt.value > seq.value
                       THEN [err |-> "Verify"]
                       ELSE IF remain = <<>> THEN [err |-> "Incomplete"]
                       ELSE LET length == Head(remain)
                                reamin == Tail(remain)
                            IN IF Len(reamin) < length + RESET_TOKEN_SIZE
                               THEN [err |-> "Incomplete"]
                               ELSE [err |-> "",
                                     remain |-> SubSeq(reamin, length + RESET_TOKEN_SIZE + 1,
                                                       Len(reamin)),
                                     frame |-> [sequence |-> seq.value,
                                                retire_prior_to |-> rpt.value,
                                                id |-> SubSeq(reamin, 1, length),
                                                reset_token |->
                                                    SubSeq(reamin, length + 1,
                                                           length + RESET_TOKEN_SIZE)]]

\* be_new_connection_id_frame.  ConnectionId::from_buf takes `length`
\* bytes, take(RESET_TOKEN_SIZE) the token; both are streaming parsers and
\* ask for more input (Incomplete) on a buffer that ends before them.
be_new_connection_id_frame(input) ==
    LET sequence == be_varint(input)
    IN IF sequence = None THEN [err |-> "Incomplete"]
       ELSE LET retire_prior_to == be_varint(Unwrap(sequence).remain)
            IN IF retire_prior_to = None THEN [err |-> "Incomplete"]
               ELSE LET seq == Unwrap(sequence)
                        rpt == Unwrap(retire_prior_to)
                        remain == rpt.remain
                    IN IF \/ rpt.high > seq.high
                          \/ rpt.high = seq.high /\ rpt.value > seq.value
                       THEN [err |-> "Verify"]
                       ELSE IF remain = <<>> THEN [err |-> "Incomplete"]
                       ELSE LET length == Head(remain)
                                reamin == Tail(remain)
                            IN IF length > MAX_CID_SIZE \/ length = 0
                               THEN [err |-> "Verify"]
                               ELSE IF Len(reamin) < length + RESET_TOKEN_SIZE
                               THEN [err |-> "Incomplete"]
                               ELSE [err |-> "",
                                     remain |-> SubSeq(reamin, length + RESET_TOKEN_SIZE + 1,
                                                       Len(reamin)),
                                     frame |-> [sequence |-> seq.value,
                                                retire_prior_to |-> rpt.value,
                                                id |-> SubSeq(reamin, 1, length),
                                                reset_token |->
                                                    SubSeq(reamin, length + 1,
                                                           length + RESET_TOKEN_SIZE)]]

\* The buffers of a peer.  A frame with its type: a type of one or two
\* bytes (0x08..0x0f, 0x07, 0x1c, 0x1e, the two-byte forms of 0x0e, 0x101,
\* 0x108 and 0x11e), a stream id, then no offset, a short one, 2^62 - 1 or
\* 2^62 - 2, then no length, a short one or 2^62 - 1, then the data.  The
\* fields of a NEW_CONNECTION_ID frame: sequence, retire_prior_to, a length
\* byte, the bytes of the connection id and of the token, in full or not.
RawBuffers ==
    {ty \o <<3>> \o off \o len \o Bytes(n) :
        ty \in {<<t>> : t \in 8..15} \cup {<<7>>, <<28>>, <<30>>}
                 \cup {<<64, 14>>, <<65, 1>>, <<65, 8>>, <<65, 30>>},
        off \in {<<>>, <<5>>, <<255, 255, 255, 255, 255, 255, 255, 255>>,
                 <<255, 255, 255, 255, 255, 255, 255, 254>>},
        len \in {<<>>, <<0>>, <<1>>, <<2>>, <<255, 255, 255, 255, 255, 255, 255, 255>>},
        n \in 0..MaxDataLen}
    \cup
    {put_varint(sequence) \o put_varint(retire_prior_to) \o <<length>> \o Bytes(n) :
        sequence \in {0, 1, 70}, retire_prior_to \in {0, 1, 71},
        length \in {0, 1, MAX_CID_SIZE, MAX_CID_SIZE + 1, 255},
        n \in {0, RESET_TOKEN_SIZE, RESET_TOKEN_SIZE + 1,
               MAX_CID_SIZE + RESET_TOKEN_SIZE - 1, MAX_CID_SIZE + RESET_TOKEN_SIZE,
               MAX_CID_SIZE + RESET_TOKEN_SIZE + 1}}

InitParse ==
    /\ Build("ZeroRtt")
    /\ StreamIdle
    /\ input_frame = None
    /\ \E buf \in RawBuffers : wire = Some(buf)
    /\ parsed = None

BeNewConnectionIdFrame ==
    /\ pc = "idle"
    /\ wire # None
    /\ parsed = None
    /\ input_frame = None
    /\ parsed' = Some(be_new_connection_id_frame(Unwrap(wire)))
    /\ out' = [op |-> "be_new_connection_id_frame"]
    /\ UNCHANGED <<spacevars, streamvars, input_frame, wire>>

NextParse ==
    \/ BeFrame
    \/ BeNewConnectionIdFrame

SpecParse == InitParse /\ [][NextParse]_vars

(***************************************************************************)
(* STREAM frames of a peer written again: be_frame parses a buffer and     *)
(* put_stream_frame writes the StreamFrame it yields, with its data.       *)
(***************************************************************************)
\* STREAM frames as a peer encodes them: any flag bits, stream id 3, no
\* offset field or an offset of 0 or 5, no length field or a length of 0 to
\* 2, then the data
StreamBuffers ==
    {<<ty, 3>> \o off \o len \o Bytes(n) :
        ty \in 8..15, off \in {<<>>, <<0>>, <<5>>},
        len \in {<<>>, <<0>>, <<1>>, <<2>>}, n \in 0..MaxDataLen}

InitRelay ==
    /\ Build("ZeroRtt")
    /\ StreamIdle
    /\ input_frame = None
    /\ \E buf \in StreamBuffers : wire = Some(buf)
    /\ parsed = None

\* StreamFrame::encoding_size
StreamEncodingSize(frame) ==
    1 + VarintLen(frame.id)
      + (IF frame.offset # 0 THEN VarintLen(frame.offset) ELSE 0)
      + (IF HasBit(frame.flag, LEN_BIT) THEN VarintLen(frame.length) ELSE 0)
      + frame.length

\* put_stream_frame on the StreamFrame and the data be_frame has yielded
PutParsedStreamFrame ==
    /\ pc = "idle"
    /\ input_frame = None
    /\ parsed # None
    /\ Unwrap(parsed) # None
    /\ \E r \in Unwrap(parsed) :
          /\ input_frame' = Some([kind |-> "Stream", frame |-> r.frame, data |-> r.data])
          /\ wire' = Some(put_stream_frame(r.frame, r.data))
    /\ out' = [op |-> "put_stream_frame"]
    /\ UNCHANGED <<spacevars, streamvars, parsed>>

NextRelay ==
    \/ BeFrame
    \/ PutParsedStreamFrame

SpecRelay == InitRelay /\ [][NextRelay]_vars

(***************************************************************************)
(* Properties.  out is the last call and its result; for try_send:         *)
(* returned (the call came back), ret (what it returned), ack (the ACK     *)
(* frame it emitted), written (the records of the frames it wrote),        *)
(* stored (it pushed a Packet).                                            *)
(***************************************************************************)
\* the packet try_send just stored, at the packet number it returned
StoredPacket == Unwrap(Unwrap(DqGet(inflight_packets, Unwrap(out.ret)[1])))

\* the packet numbers of the received slots of a deque of States
RcvdSet(d) == {pn \in d.offset..(DqLargest(d) - 1) : has_rcvd(Unwrap(DqGet(d, pn)))}

MaxOf(S) == CHOOSE x \in S : \A y \in S : x >= y

\* C1: every call to try_send terminates, whatever pending_frames holds: it
\* is never inside the pending-frames loop with nothing that ends the loop.
C1_TrySendTerminates == pc # "frames_loop"

\* C2: try_send returns None if and only if it wrote no frame, and then it
\* pushes nothing; when it wrote a frame it returns Some((pn, bytes)) and
\* inflight slot pn holds a Packet whose payload lists the frames written.
C2_NoneIffNothingWritten ==
    (out.op = "try_send" /\ out.returned) =>
        /\ (out.ret = None) <=> (out.written = <<>>)
        /\ (out.ret = None) => ~out.stored
        /\ (out.written # <<>>) =>
              /\ out.ret # None
              /\ DqGet(inflight_packets, Unwrap(out.ret)[1]) # None
              /\ StoredPacket.payload = out.written

\* C3: the packet numbers successful try_send calls return are strictly
\* increasing: the next number to issue never goes down, whatever call is
\* made, and a successful try_send returns it and moves it up by one.
C3_PacketNumbersIncrease ==
    [][/\ DqLargest(inflight_packets') >= DqLargest(inflight_packets)
       /\ (out'.op = "try_send" /\ out'.stored) =>
             /\ Unwrap(out'.ret)[1] = DqLargest(inflight_packets)
             /\ DqLargest(inflight_packets') = Unwrap(out'.ret)[1] + 1]_vars

\* a packet number is issued after recv_ack has compacted inflight
C3_Witness ==
    /\ out.op = "try_send"
    /\ out.stored
    /\ inflight_packets.offset > 0
    /\ Unwrap(out.ret)[1] > 0

\* C4: after record() calls the ACK frame of gen_ack_frame has largest =
\* the largest recorded packet number, and its ranges cover exactly the
\* received packet numbers of rcvd.
C4_AckCoverage ==
    GenAckDefined(rcvd_packets) =>
        /\ gen_ack_frame(rcvd_packets, now).largest = MaxOf(RcvdSet(rcvd_packets))
        /\ AckCovered(gen_ack_frame(rcvd_packets, now)) = RcvdSet(rcvd_packets)

\* the number of consecutive packet numbers from pn downwards, not below lo,
\* that are in S (want = TRUE) or not in S (want = FALSE)
RECURSIVE RunDown(_, _, _, _)
RunDown(S, pn, lo, want) ==
    IF pn < lo \/ ((pn \in S) # want) THEN 0
    ELSE 1 + RunDown(S, pn - 1, lo, want)

\* the (gap, run) pairs below packet number pn, the top of a gap
RECURSIVE RangesDown(_, _, _)
RangesDown(S, pn, lo) ==
    LET gap == RunDown(S, pn, lo, FALSE)
        run == RunDown(S, pn - gap, lo, TRUE)
    IN IF run = 0 THEN <<>>
       ELSE <<(<<gap - 1, run - 1>>)>> \o RangesDown(S, pn - gap - run, lo)

\* C5: first_range is the number of consecutive received slots ending at
\* largest, minus 1; each following (gap, run) pair is a gap of gap+1
\* non-received packets and a run of run+1 received packets, going down;
\* received {1, 2, 4, 7} gives largest 7, first_range 0, ranges (1,0),(0,1).
C5_AckRangeEncoding ==
    GenAckDefined(rcvd_packets) =>
        LET S == RcvdSet(rcvd_packets)
            lo == rcvd_packets.offset
            L == MaxOf(S)
            first == RunDown(S, L, lo, TRUE)
            ack == gen_ack_frame(rcvd_packets, now)
        IN /\ ack.first_range = first - 1
           /\ ack.ranges = RangesDown(S, L - first, lo)
           /\ (S = {1, 2, 4, 7} /\ lo = 0) =>
                 /\ ack.largest = 7
                 /\ ack.first_range = 0
                 /\ ack.ranges = <<(<<1, 0>>), (<<0, 1>>)>>

\* C6: need_send_ack is true iff the space is not 0-RTT, rcvd has an
\* Important slot, and new_lost_event or rcvd_unreached_packet is set or
\* time_to_sync is set and time_to_sync <= now.
C6_NeedSendAckIff ==
    need_send_ack_frame <=>
        /\ space_id # "ZeroRtt"
        /\ \E i \in 1..Len(rcvd_packets.q) : rcvd_packets.q[i].st = "Important"
        /\ \/ new_lost_event
           \/ rcvd_unreached_packet
           \/ \E t \in time_to_sync : t <= now

\* C7: when try_send has emitted an ACK frame, time_to_sync is unset, both
\* flags are false, last_synced_ack_largest is the ACK's largest, every slot
\* of rcvd is synced (none remains Important), and the packet's payload
\* holds an Ack record with that largest value.
C7_AckEmitPostconditions ==
    (out.op = "try_send" /\ out.returned /\ out.ack # None) =>
        /\ time_to_sync = None
        /\ ~new_lost_event
        /\ ~rcvd_unreached_packet
        /\ last_synced_ack_largest = Unwrap(out.ack).largest
        /\ \A i \in 1..Len(rcvd_packets.q) :
              rcvd_packets.q[i].st \in {"Synced", "Unreached"}
        /\ out.stored
        /\ \E i \in 1..Len(StoredPacket.payload) :
              StoredPacket.payload[i] = AckRecord(Unwrap(out.ack).largest)

\* C8: the Packet try_send stores is ack-eliciting iff its payload holds a
\* record other than the Ack record, and the time of the last ack-eliciting
\* packet sent is the send time of such a packet.
C8_AckElicitingIff ==
    (out.op = "try_send" /\ out.stored) =>
        /\ StoredPacket.is_ack_eliciting <=>
              (\E i \in 1..Len(StoredPacket.payload) : StoredPacket.payload[i].k # "Ack")
        /\ StoredPacket.is_ack_eliciting =>
              time_of_last_sent_ack_eliciting_packet = Some(StoredPacket.send_time)

\* what a call of recv_ack that returns at once leaves alone
RecvAckNoEffect ==
    /\ out'.result = "None"
    /\ out'.calls = <<>>
    /\ UNCHANGED <<inflight_packets, frames, rcvd_packets, loss_time,
                   largest_acked_pktid, tls_trans, stm_trans>>

\* C9 (as amended): recv_ack with ack.largest strictly less than the
\* largest packet number already acknowledged returns at once: inflight,
\* pending_frames, rcvd, loss_time and the stored largest are unchanged and
\* neither the data sources nor the RTT estimator are called.
C9_StaleAckIgnored ==
    [][(/\ out'.op = "recv_ack"
        /\ \E v \in largest_acked_pktid : out'.ack.largest < v)
         => RecvAckNoEffect]_vars

\* recv_ack has returned early on an ACK whose largest is below the stored one
C9_Witness ==
    /\ out.op = "recv_ack"
    /\ out.stale
    /\ \E v \in largest_acked_pktid : out.ack.largest < v

\* C9 as stated: the same with ack.largest less than or equal to the
\* largest packet number already acknowledged, for a call that comes back.
C9_StaleOrEqualAckIgnored ==
    [][(/\ out'.op = "recv_ack"
        /\ out'.result # "panic"
        /\ \E v \in largest_acked_pktid : out'.ack.largest <= v)
         => RecvAckNoEffect]_vars

\* C10: after recv_ack has processed an ACK with largest L that newly
\* acknowledges a packet, no packet numbered <= L - PACKET_THRESHOLD is
\* still in inflight, and the packet threshold declares lost no packet
\* numbered above L - PACKET_THRESHOLD.
C10_PacketThresholdLoss ==
    (out.op = "recv_ack" /\ out.result = "Some") =>
        /\ \A pn \in 0..(out.ack.largest - PACKET_THRESHOLD) :
              DqGet(inflight_packets, pn) \in {None, Some(None)}
        /\ \A k \in 1..Len(out.lost_pt) :
              out.lost_pt[k] <= out.ack.largest - PACKET_THRESHOLD

\* the elements of a sequence
Elems(q) == {q[i] : i \in 1..Len(q)}

\* the packet in flight with number pn (the slot holds a packet)
InFlight(pn) == DqGet(inflight_packets, pn) \notin {None, Some(None)}

InFlightPacket(pn) == Unwrap(Unwrap(DqGet(inflight_packets, pn)))

\* C11: with packets 1..10 in flight, all ack-eliciting, an ACK for packets
\* 4..10 only declares packet 1 lost by the packet threshold; packets 2 and
\* 3 are not declared lost by it, and are lost at that point only if
\* loss_delay has elapsed since their send time.
C11_LossScenario ==
    [][(/\ out'.op = "recv_ack"
        /\ out'.ack = ScenarioAck
        /\ \A pn \in 1..10 : InFlight(pn) /\ InFlightPacket(pn).is_ack_eliciting)
         => /\ out'.result = "Some"
            /\ 1 \in Elems(out'.lost_pt)
            /\ 2 \notin Elems(out'.lost_pt)
            /\ 3 \notin Elems(out'.lost_pt)
            /\ \A pn \in {2, 3} :
                  pn \in Elems(out'.lost_tt) =>
                     \E ld \in LossDelays : InFlightPacket(pn).send_time + ld <= now]_vars

\* the payloads of the packets in flight with the numbers ids, in order
RECURSIVE PayloadsOf(_)
PayloadsOf(ids) ==
    IF ids = <<>> THEN <<>>
    ELSE InFlightPacket(Head(ids)).payload \o PayloadsOf(Tail(ids))

\* the control frames of the Pure records of a payload, in order
RECURSIVE PureFramesOf(_)
PureFramesOf(payload) ==
    IF payload = <<>> THEN <<>>
    ELSE (IF Head(payload).k = "Pure" THEN <<Head(payload).frame>> ELSE <<>>)
           \o PureFramesOf(Tail(payload))

\* one call op(range) on its data source per Data record of a payload
RECURSIVE DataCallsOf(_, _)
DataCallsOf(payload, op) ==
    IF payload = <<>> THEN <<>>
    ELSE (IF Head(payload).k = "Data"
          THEN <<(<<op, Head(payload).mux, Head(payload).range>>)>> ELSE <<>>)
           \o DataCallsOf(Tail(payload), op)

IsMayLossCall(c) == c[1] = "may_loss_data"

\* C12: when recv_ack declares packets lost (by either threshold), each
\* Pure frame of their payloads is appended to pending_frames once,
\* may_loss_data is called once per Data record on its own data source,
\* and nothing is appended for their Ack records.
C12_LostPayloadRequeued ==
    [][(out'.op = "recv_ack") =>
          LET lost == PayloadsOf(out'.lost_pt \o out'.lost_tt)
          IN /\ frames' = frames \o PureFramesOf(lost)
             /\ SelectSeq(out'.calls, IsMayLossCall) = DataCallsOf(lost, "may_loss_data")
             /\ \A i \in 1..Len(lost) :
                   lost[i].k = "Data" =>
                      lost[i].range \in (IF lost[i].mux = "crypto" THEN tls_trans'
                                         ELSE stm_trans').unsent]_vars

\* recv_ack has declared packets lost by both thresholds, has put a control
\* frame back and has offered crypto data again
C12_Witness ==
    /\ out.op = "recv_ack"
    /\ out.lost_pt # <<>>
    /\ out.lost_tt # <<>>
    /\ Len(frames) > 1
    /\ \E c \in Elems(out.calls) : c[1] = "may_loss_data" /\ c[2] = "crypto"

IsConfirmCall(c) == c[1] = "confirm_data"

\* C13: when recv_ack acknowledges packets in flight, confirming their
\* payloads completes normally: the call does not fail on a Pure record,
\* puts none of their control frames back on pending_frames unless a packet
\* is declared lost, and calls confirm_data exactly once with the range of
\* each Data record, on the record's own data source.
C13_ConfirmCompletes ==
    [][(out'.op = "recv_ack" /\ ~out'.stale) =>
          LET acked == PayloadsOf(out'.newly)
          IN /\ out'.result # "panic"
             /\ SelectSeq(out'.calls, IsConfirmCall) = DataCallsOf(acked, "confirm_data")
             /\ (out'.lost_pt = <<>> /\ out'.lost_tt = <<>>) => frames' = frames]_vars

IsRttCall(c) == c[1] = "rtt_update"

\* C14: when recv_ack newly acknowledges the largest acknowledged packet and
\* that packet was ack-eliciting, the RTT estimator gets exactly one sample:
\* now - send_time of that packet, the frame's ack delay, and whether the
\* space is the 1-RTT space; otherwise the estimator is not updated.
C14_RttSample ==
    [][(out'.op = "recv_ack") =>
          LET largest == out'.ack.largest
          IN SelectSeq(out'.calls, IsRttCall) =
               IF /\ ~out'.stale
                  /\ InFlight(largest)
                  /\ InFlightPacket(largest).is_ack_eliciting
               THEN <<(<<"rtt_update", now - InFlightPacket(largest).send_time,
                         out'.ack.delay, space_id = "OneRtt">>)>>
               ELSE <<>>]_vars

\* C15: poll_write delegates to the inner sender in Ready and Sending only;
\* in DataSent and DataRecvd it returns Unsupported, in ResetSent and
\* ResetRecvd it returns BrokenPipe, and in those four states it leaves the
\* sender as it was.
C15_PollWriteByState ==
    [][(out'.op = "poll_write") =>
          /\ out'.delegated <=> sender.state \in {"Ready", "Sending"}
          /\ sender.state \in {"DataSent", "DataRecvd"} =>
                out'.ret = "Unsupported" /\ sender' = sender
          /\ sender.state \in {"ResetSent", "ResetRecvd"} =>
                out'.ret = "BrokenPipe" /\ sender' = sender]_vars

\* a write on a sender in DataSent with a final size has come back Unsupported
C15_Witness ==
    /\ out.op = "poll_write"
    /\ ~out.delegated
    /\ out.ret = "Unsupported"
    /\ sender.state = "DataSent"
    /\ sender.final # None

\* the place of a state on Ready -> Sending -> DataSent -> DataRecvd
DataRank(state) ==
    CASE state = "Ready" -> 0
      [] state = "Sending" -> 1
      [] state = "DataSent" -> 2
      [] state = "DataRecvd" -> 3

DataStates == {"Ready", "Sending", "DataSent", "DataRecvd"}

\* a step forward, or no step
Forward(a, b) ==
    \/ a = b
    \/ a \in DataStates /\ b \in DataStates /\ DataRank(a) < DataRank(b)
    \/ a \in {"Ready", "Sending", "DataSent"} /\ b = "ResetSent"
    \/ a = "ResetSent" /\ b = "ResetRecvd"

\* C16: the sender state only moves forward along Ready, Sending, DataSent,
\* DataRecvd, or into ResetSent and from there to ResetRecvd; it stays in
\* DataRecvd and in ResetRecvd, where a write returns Unsupported resp.
\* BrokenPipe.
C16_StateMonotone ==
    [][/\ Forward(sender.state, sender'.state)
       /\ sender.state \in {"DataRecvd", "ResetRecvd"} => sender' = sender
       /\ (out'.op = "poll_write" /\ sender.state = "DataRecvd") =>
             out'.ret = "Unsupported"
       /\ (out'.op = "poll_write" /\ sender.state = "ResetRecvd") =>
             out'.ret = "BrokenPipe"]_vars

\* a write on a sender in ResetRecvd has come back BrokenPipe
C16_Witness ==
    /\ out.op = "poll_write"
    /\ out.ret = "BrokenPipe"
    /\ sender.state = "ResetRecvd"

C18_ShutdownToDataSent ==
    [][/\ (out'.op = "poll_shutdown" /\ out'.ret # "Err" /\ sender.state = "Sending") =>
             /\ sender'.state = "DataSent"
             /\ sender'.final = Some(sender.offset)
       /\ (sender'.state = "DataRecvd" /\ sender.state # "DataRecvd") =>
             \/ out'.ret = "Err"
             \/ sender.state = "DataSent" /\ sender.acked = sender.offset]_vars

\* C19: poll_flush on a sender in DataSent leaves it in DataSent while the
\* flush is Pending and moves it to DataRecvd exactly when the flush comes
\* back Ok; a flush comes back Ok from a live sender only when the
\* acknowledged offset is the total written; in DataRecvd it is Ok, in
\* ResetSent and ResetRecvd it is BrokenPipe.
C19_FlushByState ==
    [][(out'.op = "poll_flush") =>
          /\ sender.state = "DataSent" =>
                /\ out'.ret = "Pending" => sender' = sender
                /\ sender'.state = "DataRecvd" <=> out'.ret = "Ok"
          /\ (sender.state \in {"Ready", "Sending", "DataSent"} /\ out'.ret = "Ok") =>
                sender.acked = sender.offset
          /\ sender.state = "DataRecvd" => out'.ret = "Ok" /\ sender' = sender
          /\ sender.state \in {"ResetSent", "ResetRecvd"} =>
                out'.ret = "BrokenPipe" /\ sender' = sender]_vars

\* what the parser has to answer for the frame handed to the codec: an
\* empty remainder and the frame (with its data, for a STREAM frame)
RoundTrip(x) ==
    IF x.kind = "Stream"
    THEN Some([remain |-> <<>>, frame |-> x.frame, data |-> x.data])
    ELSE Some([remain |-> <<>>, frame |-> x.frame])

\* C20: parsing the bytes serialized for a frame yields an empty remainder
\* and a frame equal to it: for a STREAM frame with its flag bits, offset
\* and length, for a CONNECTION_CLOSE frame with its frame type field and
\* reason.
C20_CodecRoundTrip ==
    parsed # None => Unwrap(parsed) = RoundTrip(Unwrap(input_frame))

\* C21: a CONNECTION_CLOSE frame is serialized with type 0x1c exactly when
\* its frame type field is present and with type 0x1d exactly when it is
\* absent, and the parser reads a frame type field exactly for type 0x1c.
C21_ConnectionCloseTypeTag ==
    (wire # None /\ Unwrap(input_frame).kind = "ConnectionClose") =>
        LET frame == Unwrap(input_frame).frame
            tag == Unwrap(wire)[1]
            read == connection_close_frame_at_layer(tag - CONNECTION_CLOSE_FRAME_TYPE,
                                                    Tail(Unwrap(wire)))
        IN /\ tag = 28 <=> frame.frame_type # None
           /\ tag = 29 <=> frame.frame_type = None
           /\ read # None /\ (Unwrap(read).frame.frame_type # None <=> tag = 28)

\* the two varints at the head of a buffer, when it holds them
HeadVarints(buf) ==
    LET a == be_varint(buf)
    IN IF a = None THEN None
       ELSE LET b == be_varint(Unwrap(a).remain)
            IN IF b = None THEN None
               ELSE Some([first |-> Unwrap(a).value, second |-> Unwrap(b).value,
                          remain |-> Unwrap(b).remain])

\* C22: parsing a NEW_CONNECTION_ID frame fails with a malformed-frame
\* error, and yields no frame, for every input whose retire_prior_to is
\* above its sequence or whose connection id length byte is 0 or above 20;
\* every parsed frame has retire_prior_to <= sequence and a connection id
\* of 1 to 20 bytes.
C22_NewConnectionIdRejects ==
    (parsed # None /\ out.op = "be_new_connection_id_frame") =>
        LET r == Unwrap(parsed)
            h == HeadVarints(Unwrap(wire))
        IN /\ (h # None /\ Unwrap(h).second > Unwrap(h).first) => r.err = "Verify"
           /\ (h # None /\ Unwrap(h).remain # <<>>
                 /\ (Head(Unwrap(h).remain) = 0 \/ Head(Unwrap(h).remain) > 20))
                => r.err = "Verify"
           /\ r.err = "" => /\ r.frame.retire_prior_to <= r.frame.sequence
                            /\ Len(r.frame.id) \in 1..20

\* a buffer with retire_prior_to <= sequence, a length byte of 21 and the
\* 21 bytes and the token behind it is rejected
C22_Witness ==
    /\ parsed # None /\ out.op = "be_new_connection_id_frame"
    /\ Unwrap(parsed).err = "Verify"
    /\ LET h == HeadVarints(Unwrap(wire))
       IN /\ h # None /\ Unwrap(h).second <= Unwrap(h).first
          /\ Head(Unwrap(h).remain) = 21
          /\ Len(Unwrap(h).remain) = 1 + 21 + 16

\* C23: frame dispatch rejects every frame type varint that is not one of
\* the recognized type values, also a value above 0xff whose low byte is a
\* recognized type (0x101, 0x108): it is not parsed as the frame of its low
\* byte.
C23_UnknownTypeRejected ==
    (parsed # None /\ out.op = "be_frame" /\ input_frame = None) =>
        LET ty == be_varint(Unwrap(wire))
        IN (ty # None /\ Unwrap(ty).value \notin RecognizedTypes)
              => Unwrap(parsed) = None

\* the number of bytes of the varint that starts with byte b
VarintBytes(b) == CASE b \div 64 = 0 -> 1 [] b \div 64 = 1 -> 2
                    [] b \div 64 = 2 -> 4 [] OTHER -> 8

\* a buffer of SpecParse that starts with a STREAM type of one byte and was
\* handed to be_frame; its stream id has one byte
IsStreamParse ==
    /\ parsed # None /\ out.op = "be_frame" /\ input_frame = None
    /\ Unwrap(wire)[1] \in 8..15

\* offset + length is above 2^62 - 1 = (2^31 - 1) * 2^31 + (2^31 - 1), for the
\* fields a STREAM buffer holds: the high halves alone are above 2^31 - 1,
\* or they are 2^31 - 1 and the low halves are above 2^31 - 1
AboveVarintMax(off_high, off_low, len_high, len_low) ==
    \/ off_high > 2147483647 - len_high
    \/ off_high = 2147483647 - len_high /\ off_low > 2147483647 - len_low

\* C24: parsing a STREAM frame yields offset 0 when the OFF bit is absent
\* and a length equal to the number of remaining payload bytes when the LEN
\* bit is absent, and fails when offset + length is above 2^62 - 1; every
\* parsed STREAM frame has offset + length <= 2^62 - 1.
C24_StreamParse ==
    IsStreamParse =>
        LET buf == Unwrap(wire)
            flag == buf[1] - STREAM_FRAME_TYPE
            r == Unwrap(parsed)
            after_id == SubSeq(buf, 3, Len(buf))
            off == IF HasBit(flag, OFF_BIT) THEN be_varint(after_id)
                   ELSE Some([remain |-> after_id, value |-> 0, high |-> 0])
            len == IF off = None THEN None
                   ELSE IF HasBit(flag, LEN_BIT) THEN be_varint(Unwrap(off).remain)
                   ELSE Some([remain |-> <<>>, value |-> Len(Unwrap(off).remain),
                              high |-> 0])
        IN /\ (r # None /\ ~HasBit(flag, OFF_BIT))
                => Unwrap(r).frame.offset = 0 /\ Unwrap(r).frame.offset_high = 0
           /\ (r # None /\ ~HasBit(flag, LEN_BIT))
                => /\ Unwrap(r).frame.length
                        = Len(buf) - 2 - (IF HasBit(flag, OFF_BIT)
                                          THEN VarintBytes(buf[3]) ELSE 0)
                   /\ Unwrap(r).frame.length_high = 0
                   /\ Len(Unwrap(r).data) = Unwrap(r).frame.length
                   /\ Unwrap(r).remain = <<>>
           /\ (len # None /\ AboveVarintMax(Unwrap(off).high, Unwrap(off).value,
                                            Unwrap(len).high, Unwrap(len).value))
                => r = None
           /\ r # None
                => ~AboveVarintMax(Unwrap(r).frame.offset_high, Unwrap(r).frame.offset,
                                   Unwrap(r).frame.length_high, Unwrap(r).frame.length)

\* a frame at the bound is parsed (offset 2^62 - 2, one byte of data and no
\* LEN bit), and one past it was rejected
C24_Witness ==
    /\ IsStreamParse
    /\ Unwrap(wire) = <<12, 3, 255, 255, 255, 255, 255, 255, 255, 254, 104>>
    /\ Unwrap(parsed) # None
    /\ Unwrap(Unwrap(parsed)).frame.length = 1
    /\ be_frame(<<12, 3, 255, 255, 255, 255, 255, 255, 255, 255, 104>>) = None

\* should_carry_length was asked about the frame handed to the codec
CarryLengthAsked == out.op = "should_carry_length"

\* the encoded size of a STREAM frame without its length field
SizeWithoutLength(frame) ==
    1 + VarintLen(frame.id) + (IF frame.offset = 0 THEN 0 ELSE VarintLen(frame.offset))
      + frame.length

\* the answer the policy gives for a frame of size F in a packet with C
\* bytes left, encoded_len the size of its length field
CarryPolicy(F, C, encoded_len) ==
    IF F = C THEN [k |-> "NoProblem"]
    ELSE IF C - F <= encoded_len THEN [k |-> "PaddingFirst", n |-> C - F]
    ELSE [k |-> "ShouldAfter", n |-> C - F - encoded_len, m |-> C - F]

\* C25 as stated: for every STREAM frame whose encoded size without the
\* length field is F <= C, should_carry_length(C) is NoProblem when F = C,
\* PaddingFirst(C - F) when 0 < C - F <= encoded_len(length), and
\* ShouldAfter(C - F - encoded_len(length), C - F) otherwise.
C25_CarryLengthAsStated ==
    CarryLengthAsked =>
        LET frame == Unwrap(input_frame).frame
            F == SizeWithoutLength(frame)
        IN F <= out.capacity
             => out.ret = CarryPolicy(F, out.capacity, VarintLen(frame.length))

\* C25: the policy holds with F the encoding size of the frame as it is: the
\* size without the length field for a frame whose LEN bit is not set, and
\* that size plus encoded_len(length) for a frame whose LEN bit is set.
C25_CarryLength ==
    CarryLengthAsked =>
        LET frame == Unwrap(input_frame).frame
            F == SizeWithoutLength(frame)
                   + (IF HasBit(frame.flag, LEN_BIT) THEN VarintLen(frame.length) ELSE 0)
        IN F <= out.capacity
             => out.ret = CarryPolicy(F, out.capacity, VarintLen(frame.length))

\* a frame of 64 bytes of data without the LEN bit, two bytes short of the
\* capacity: the gap is the size of its length field and is to be padded
C25_Witness ==
    /\ CarryLengthAsked
    /\ Unwrap(input_frame).frame.length = 64
    /\ ~HasBit(Unwrap(input_frame).frame.flag, LEN_BIT)
    /\ out.ret = [k |-> "PaddingFirst", n |-> 2]

\* a step of record(out'.pkt_id, out'.is_ack_eliciting)
RecordStep == out'.op = "record" /\ rcvd_packets' # rcvd_packets

\* C29: record(pn, TRUE) with pn above largest_rcvd_ack_eliciting_pktid sets
\* new_lost_event exactly when a slot with a packet number in
\* (last_synced_ack_largest, pn - PACKET_THRESHOLD] is NotReceived (and keeps
\* its value otherwise), and sets largest_rcvd_ack_eliciting_pktid to pn; a
\* record that is not ack-eliciting does not set new_lost_event.
C29_NewLostEvent ==
    [][RecordStep =>
         LET pn == out'.pkt_id
             missing == \E n \in (last_synced_ack_largest + 1)..(pn - PACKET_THRESHOLD) :
                            DqGet(rcvd_packets', n) = Some(NotReceived)
         IN IF out'.is_ack_eliciting
            THEN pn > largest_rcvd_ack_eliciting_pktid
                   => /\ new_lost_event' = (new_lost_event \/ missing)
                      /\ largest_rcvd_ack_eliciting_pktid' = pn
            ELSE new_lost_event' = new_lost_event]_vars

\* a step of try_send (FramesLoopSpin, the one other step that keeps
\* out.op, is taken inside try_send)
TrySendStep == pc = "idle" /\ out'.op = "try_send"

\* C27: while the space is tagged 0-RTT, try_send never invokes gen_ack_frame
\* (whose assertion would fail) and never emits an ACK frame, whatever
\* packets were recorded and whichever of new_lost_event,
\* rcvd_unreached_packet and time_to_sync are set.
C27_NoAckInZeroRtt ==
    [][(TrySendStep /\ space_id = "ZeroRtt")
          => /\ out'.ack = None
             /\ pc' # "panicked"
             /\ UNCHANGED <<rcvd_packets, time_to_sync, new_lost_event,
                            rcvd_unreached_packet, last_synced_ack_largest>>]_vars

\* try_send ran on a 0-RTT space that has recorded an ack-eliciting packet
\* and whose time_to_sync is set, and emitted no ACK frame
C27_Witness ==
    /\ space_id = "ZeroRtt"
    /\ out.op = "try_send" /\ out.ack = None
    /\ time_to_sync # None
    /\ DqGet(rcvd_packets, 0) = Some(new_rcvd(0, TRUE))

\* after the upgrade the packet recorded is acknowledged: the 1-RTT space
\* emitted an ACK frame for packet 0
C27_AckAfterUpgrade ==
    /\ space_id = "OneRtt"
    /\ out.op = "try_send" /\ out.ack # None
    /\ Unwrap(out.ack).largest = 0

\* a step of upgrade
UpgradeStep == pc = "idle" /\ out'.op = "upgrade"

\* C28: upgrade changes the tag of a 0-RTT space to 1-RTT and nothing else
\* (the packets in flight, the packets received, the pending frames, the
\* scalars and the flags are unchanged, and the next packet number is the
\* same); on a space that is 1-RTT already it fails an assertion.
C28_UpgradeOnlyTag ==
    [][UpgradeStep =>
         IF space_id = "ZeroRtt"
         THEN /\ space_id' = "OneRtt"
              /\ pc' = "idle"
              /\ UNCHANGED <<ackvars, sendvars, muxvars, now>>
              /\ DqLargest(inflight_packets') = DqLargest(inflight_packets)
         ELSE /\ space_id = "OneRtt"
              /\ pc' = "panicked"]_vars

\* a space with a packet in flight, a packet received and the ACK timer set
\* was upgraded
C28_Witness ==
    /\ out.op = "upgrade" /\ space_id = "OneRtt" /\ pc = "idle"
    /\ DqLen(inflight_packets) > 0
    /\ DqLen(rcvd_packets) > 0
    /\ time_to_sync # None

\* C30: record(pn, TRUE) with pn below last_synced_ack_largest sets
\* rcvd_unreached_packet, and a record with pn >= last_synced_ack_largest or
\* one that is not ack-eliciting leaves it as it is; with the flag set, the
\* next try_send whose buffer has room for the ACK frame writes one, whether
\* time_to_sync is set or not.
C30_UnreachedPacket ==
    [][/\ RecordStep
          => rcvd_unreached_packet' =
                (rcvd_unreached_packet
                   \/ (out'.is_ack_eliciting /\ out'.pkt_id < last_synced_ack_largest))
       /\ \A cap \in BufCaps :
            (TrySendStep /\ TrySend(cap) /\ rcvd_unreached_packet
               /\ LET ack == gen_ack_frame(rcvd_packets, now)
                  IN Fits(cap, AckMaxEncodingSize(ack), AckEncodingSize(ack)))
              => /\ out'.ack # None
                 /\ ~rcvd_unreached_packet'
                 /\ out'.returned => AckRecord(Unwrap(out'.ack).largest)
                                        \in Elems(out'.written)]_vars

\* an ack-eliciting packet below the largest packet of the last ACK frame
\* was recorded after the deadline time_to_sync and set the flag
C30_Witness ==
    /\ out.op = "record" /\ out.is_ack_eliciting
    /\ out.pkt_id < last_synced_ack_largest
    /\ rcvd_unreached_packet
    /\ time_to_sync # None /\ ~SyncDue(time_to_sync, now)

\* C26: try_send, record and recv_ack_frame are atomic with respect to each
\* other: an ACK frame that try_send emits covers exactly the packets
\* recorded before try_send took the space lock; while try_send holds the
\* lock no record or recv_ack_frame step changes the space; and try_send
\* gives the lock back (it ends idle or panicked, not inside its loop over
\* the pending frames with the receiving task waiting for the lock).
C26_TasksAtomic ==
    [][/\ (TrySendStep /\ out'.ack # None)
            => AckCovered(Unwrap(out'.ack)) = RcvdSet(rcvd_packets)
       /\ pc = "frames_loop" => UNCHANGED <<rcvd_packets, inflight_packets, ackvars>>
       /\ TrySendStep => pc' # "frames_loop"]_vars

\* the packets still in inflight after the packet threshold of the recv_ack
\* step: those in flight before the call that the call did not take as
\* acknowledged or as lost by the packet threshold
SurvivingPackets ==
    {pn \in inflight_packets.offset..(DqLargest(inflight_packets) - 1) :
        /\ InFlight(pn)
        /\ pn \notin Elems(out'.newly)
        /\ pn \notin Elems(out'.lost_pt)}

\* the first n numbers of a set
FirstOf(S, n) == {pn \in S : Cardinality({m \in S : m < pn}) < n}

\* C31: the time threshold of recv_ack examines the first PACKET_THRESHOLD
\* packets still in inflight after the packet threshold, skipping the empty
\* slots: each with send_time <= now - loss_delay is declared lost and
\* removed, and loss_time is afterwards the least send_time + loss_delay of
\* the examined packets not declared lost (unset if there is none).
C31_TimeThresholdLoss ==
    [][\A ld \in LossDelays :
         (out'.op = "recv_ack" /\ out'.result = "Some" /\ RecvAck(out'.ack, ld)) =>
            LET examined == FirstOf(SurvivingPackets, PACKET_THRESHOLD)
                lost == {pn \in examined : InFlightPacket(pn).send_time + ld <= now}
                kept == {InFlightPacket(pn).send_time + ld : pn \in examined \ lost}
            IN /\ Elems(out'.lost_tt) = lost
               /\ \A pn \in lost : DqGet(inflight_packets', pn) \in {None, Some(None)}
               /\ loss_time' = IF kept = {} THEN None
                               ELSE Some(CHOOSE t \in kept : \A u \in kept : t <= u)]_vars


\* the largest numbers of the Ack records in the payloads of the packets a
\* recv_ack step newly acknowledges
AckedAckRecords ==
    {r.largest : r \in {x \in Elems(PayloadsOf(out'.newly)) : x.k = "Ack"}}

\* C32: when recv_ack acknowledges packets that carried ACK records, rcvd is
\* drained up to A - disorder_tolerance for the largest such A: its base
\* is at least that number and never moves back, every slot at or above the
\* new base keeps its state and no slot is added; an ACK generated later
\* covers no packet number below the base.
C32_RcvdDrained ==
    [][/\ (out'.op = "recv_ack" /\ ~out'.stale) =>
            LET ends == {SatSub(A, disorder_tolerance) : A \in AckedAckRecords}
                base == MaxOf(ends \cup {rcvd_packets.offset})
            IN /\ rcvd_packets'.offset = base
               /\ DqLargest(rcvd_packets') = Max(DqLargest(rcvd_packets), base)
               /\ \A pn \in base..(DqLargest(rcvd_packets) - 1) :
                     DqGet(rcvd_packets', pn) = DqGet(rcvd_packets, pn)
       /\ (out'.op = "try_send" /\ out'.ack # None) =>
            \A pn \in AckCovered(Unwrap(out'.ack)) : pn >= rcvd_packets'.offset]_vars

\* a recv_ack step acknowledged an ACK record and removed received slots
C32_Witness ==
    /\ out.op = "recv_ack"
    /\ out.result = "Some"
    /\ rcvd_packets.offset > 0
    /\ DqLen(rcvd_packets) > 0

\* the bytes the frames of a sequence take
RECURSIVE SizeOfFrames(_)
SizeOfFrames(fs) ==
    IF fs = <<>> THEN 0 ELSE encoding_size(Head(fs)) + SizeOfFrames(Tail(fs))

\* the bytes of the buffer left when try_send enters the pending-frames loop
RoomForFrames(cap) ==
    IF out'.ack = None THEN cap ELSE cap - AckEncodingSize(Unwrap(out'.ack))

\* C33: try_send drains pending_frames from the front: the control frames
\* it writes are a prefix of the queue in queue order, every one of them
\* fitted in what was left of the buffer when its turn came, the frames left
\* are the rest of the queue in their order, and when the call goes on past
\* the loop the first frame left did not fit (whatever is queued behind it).
C33_FrontFirst ==
    [][\A cap \in BufCaps :
         (TrySendStep /\ pc' # "panicked" /\ TrySend(cap)) =>
            LET taken == PureFramesOf(out'.written)
                room(k) == RoomForFrames(cap) - SizeOfFrames(SubSeq(taken, 1, k))
            IN /\ Len(taken) <= Len(frames)
               /\ taken = SubSeq(frames, 1, Len(taken))
               /\ frames' = SubSeq(frames, Len(taken) + 1, Len(frames))
               /\ \A k \in 1..Len(taken) :
                     Fits(room(k - 1), max_encoding_size(taken[k]),
                          encoding_size(taken[k]))
               /\ out'.returned =>
                     /\ frames' # <<>>
                     /\ ~Fits(room(Len(taken)), max_encoding_size(Head(frames')),
                              encoding_size(Head(frames')))]_vars

\* try_send wrote the front frame of the queue and stopped at the next one
C33_Witness ==
    /\ out.op = "try_send"
    /\ out.returned
    /\ PureFramesOf(out.written) # <<>>
    /\ frames # <<>>

\* C38: every frame in pending_frames belongs to the space's current tag,
\* whether write_frame queued it, recv_ack put it back from a lost packet,
\* or upgrade changed the tag under it.
C38_PendingBelong == \A i \in 1..Len(frames) : belongs_to(frames[i], space_id)

\* after upgrade, recv_ack put the control frame of a lost packet back in
\* the queue
C38_Witness ==
    /\ space_id = "OneRtt"
    /\ out.op = "recv_ack"
    /\ out.result = "Some"
    /\ out.lost_tt # <<>>
    /\ frames # <<>>

\* the positions of the Data records of a data source in a payload
DataPositions(payload, mux) ==
    {i \in 1..Len(payload) : payload[i].k = "Data" /\ payload[i].mux = mux}

\* the bytes the Data records of a data source take in a payload
RECURSIVE SizeOfData(_, _)
SizeOfData(payload, mux) ==
    IF payload = <<>> THEN 0
    ELSE (IF Head(payload).k = "Data" /\ Head(payload).mux = mux
          THEN DataFrameSize(Head(payload).range) ELSE 0)
           + SizeOfData(Tail(payload), mux)

\* C34: in the 0-RTT space try_send leaves the crypto source alone and puts
\* no crypto data in the packet; in every other space the crypto data it
\* writes comes before any stream data, and the crypto source has nothing
\* more that fits in the buffer at the point where the stream source's
\* data starts.
C34_CryptoBeforeStream ==
    [][\A cap \in BufCaps \cup LossBufCaps :
         (TrySendStep /\ out'.returned /\ TrySend(cap)) =>
            LET w == out'.written
                room == RoomForFrames(cap) - SizeOfFrames(PureFramesOf(w))
                           - SizeOfData(w, "crypto")
            IN IF space_id = "ZeroRtt"
               THEN DataPositions(w, "crypto") = {} /\ tls_trans' = tls_trans
               ELSE /\ \A i \in DataPositions(w, "crypto"),
                          j \in DataPositions(w, "stream") : i < j
                    /\ try_send_data(tls_trans', room) = None]_vars

\* try_send put crypto data and stream data in one packet
C34_Witness ==
    /\ out.op = "try_send"
    /\ out.returned
    /\ DataPositions(out.written, "crypto") # {}
    /\ DataPositions(out.written, "stream") # {}

C36_GenAckPreconditions ==
    (pc = "idle" /\ need_send_ack_frame) =>
        /\ DqLen(rcvd_packets) > 0
        /\ has_rcvd(rcvd_packets.q[Len(rcvd_packets.q)])
        /\ \E i \in 1..Len(rcvd_packets.q) : rcvd_packets.q[i].st = "Important"

\* a sequence without repetitions
NoDuplicates(q) == \A i, j \in 1..Len(q) : q[i] = q[j] => i = j

\* C37: a packet try_send has issued is resolved at most once.  A recv_ack
\* step acknowledges and declares lost only packets that are in flight,
\* each once and never both; their slots are empty or gone afterwards, and
\* no step puts a packet back in an emptied slot.  The step calls
\* confirm_data only for the Data records of the packets it acknowledges
\* and may_loss_data once for each Data record of the packets it declares
\* lost, and appends each of their control frames to pending_frames once.
\* An ACK for packets that are all resolved already changes neither data
\* source nor pending_frames.
C37_ResolvedOnce ==
    [][/\ \A pn \in 0..(DqLargest(inflight_packets) - 1) :
             ~InFlight(pn) => DqGet(inflight_packets', pn) \in {None, Some(None)}
       /\ (out'.op = "recv_ack") =>
            LET resolved == out'.newly \o out'.lost_pt \o out'.lost_tt
                acked == DataCallsOf(PayloadsOf(out'.newly), "confirm_data")
                lost == PayloadsOf(out'.lost_pt \o out'.lost_tt)
                confirms == SelectSeq(out'.calls, IsConfirmCall)
            IN /\ NoDuplicates(resolved)
               /\ \A pn \in Elems(resolved) :
                     /\ InFlight(pn)
                     /\ DqGet(inflight_packets', pn) \in {None, Some(None)}
               /\ Len(confirms) <= Len(acked)
               /\ confirms = SubSeq(acked, 1, Len(confirms))
               /\ out'.result # "panic" => confirms = acked
               /\ SelectSeq(out'.calls, IsMayLossCall) = DataCallsOf(lost, "may_loss_data")
               /\ frames' = frames \o PureFramesOf(lost)
               /\ (\A pn \in Elems(AckPktIds(out'.ack)) : ~InFlight(pn)) =>
                     /\ out'.result = "None"
                     /\ frames' = frames
                     /\ tls_trans' = tls_trans
                     /\ stm_trans' = stm_trans]_vars

\* after a recv_ack that put a lost packet's control frame back, an ACK
\* arrived for packets that are no longer in flight
C37_Witness ==
    /\ out.op = "recv_ack"
    /\ ~out.stale
    /\ out.result = "None"
    /\ out.ack.largest < inflight_packets.offset
    /\ StreamCtl \in Elems(frames)

C40_TypeBitsMatchFields ==
    (out.op = "put_stream_frame") =>
        LET f == Unwrap(input_frame).frame
            w == Unwrap(wire)
        IN /\ w = <<w[1]>>
                    \o put_varint(f.id)
                    \o (IF HasBit(w[1], OFF_BIT) THEN put_varint(f.offset) ELSE <<>>)
                    \o (IF HasBit(w[1], LEN_BIT) THEN put_varint(from_u32(f.length))
                        ELSE <<>>)
                    \o Unwrap(input_frame).data
           /\ Len(w) = StreamEncodingSize(f)
=============================================================================
